---------------------------- MODULE Spec2Model ----------------------------
(***************************************************************************)
(* A model of hexai (williamcorsel/hexai): the Hex board, the distance     *)
(* evaluation, the transposition table, the alpha-beta player and the game *)
(* loop.  Operators keep the names of the Python functions they model.     *)
(*                                                                         *)
(* A coordinate (x, y) is the tuple <<x, y>>; board[x][y] of the numpy     *)
(* array is hb.board[<<x, y>>].  None is the empty tuple <<>>.             *)
(***************************************************************************)
EXTENDS Integers, Sequences, FiniteSets, TLC

VARIABLES
    hb,         \* the live HexBoard object: [size, board]
    last,       \* the most recent completed call: its name, arguments, result
    player,     \* the AlphaBetaPlayer: color, use_id, use_tt, max_depth
    tt,         \* player.tt.move_list
    timer,      \* player.turn_timer: [on: it is not None, expired: time() is past turn_timer + max_time]
    stack,      \* the activation records of alphabeta_nega, the innermost last
    ret,        \* what the call that returned last returned: [aborted, value, move]
    idl,        \* the locals of timed_turn_loop: depth, best_score, best_move (bound or not)
    pc,         \* where Hex.play and do_turn stand
    exc,        \* the exception that ended the program, "" while none
    game,       \* Hex.play: player_start, player_num, the players' colors
    ghost,      \* history kept for the properties only
    mcts        \* MctsPlayer.mcts: the nodes of the tree of self.root, the boards they
                \* refer to, and the locals iter_count, node and winner

vars == <<hb, last, player, tt, timer, stack, ret, idl, pc, exc, game, ghost, mcts>>

\* everything but the board and the record of the last call
others == <<player, tt, timer, stack, ret, idl, pc, exc, game, ghost, mcts>>

---------------------------------------------------------------------------
(* Bounds of the model *)

\* side length of the boards of SpecBoard (all cell contents are explored)
BoardSize == 3

\* side length of the board of the games of Spec
GameSize == 2

\* side length of the board of SpecSearch; the depths of its searches are in
\* 1 .. SearchDepth on every position, and in 1 .. DeepDepth on the positions
\* with at most DeepEmpty empty cells
SearchSize == 3
SearchDepth == 2
DeepDepth == 4
DeepEmpty == 4

\* the search depths: max_depth of a player, depth of a call, are in 1 .. MaxDepth
MaxDepth == 4

\* side length of the board of SpecTable, and the fixed depth of its searches
TableSize == 3
TableDepth == 3

\* the depths of the store and lookup calls of SpecCache are in 1 .. CacheDepth
CacheDepth == 3
\* the largest no_simulations of the MctsPlayer
NoSimulations == 6
\* how far outside the board the coordinates given to place may lie
Outside == 1

---------------------------------------------------------------------------
(* hexboard.py *)

EMPTY == 0
BLUE == 1
RED == 2

Colors == {BLUE, RED}
None == <<>>

Cells(n) == (0 .. n - 1) \X (0 .. n - 1)

\* HexBoard.__init__ with board=None: np.full((size, size), EMPTY)
NewBoard(n) == [size |-> n, board |-> [c \in Cells(n) |-> EMPTY]]

\* border with the test of the first coordinate for both colors
border_first_coordinate(b, color, move) == move[1] = b.size - 1

\* HexBoard.border
border(b, color, move) ==
    \/ (color = BLUE /\ move[1] = b.size - 1)
    \/ (color = RED /\ move[2] = b.size - 1)

\* get_neighbors without the neighbour (cx + 1, cy - 1)
get_neighbors_five(b, c) ==
    LET cx == c[1]
        cy == c[2]
    IN  (IF cx - 1 >= 0 THEN << <<cx - 1, cy>> >> ELSE <<>>)
        \o (IF cx + 1 < b.size THEN << <<cx + 1, cy>> >> ELSE <<>>)
        \o (IF cx - 1 >= 0 /\ cy + 1 <= b.size - 1 THEN << <<cx - 1, cy + 1>> >> ELSE <<>>)
        \o (IF cy + 1 < b.size THEN << <<cx, cy + 1>> >> ELSE <<>>)
        \o (IF cy - 1 >= 0 THEN << <<cx, cy - 1>> >> ELSE <<>>)

\* HexBoard.get_neighbors: the in-bounds neighbours, in the order of the appends
get_neighbors(b, c) ==
    LET cx == c[1]
        cy == c[2]
    IN  (IF cx - 1 >= 0 THEN << <<cx - 1, cy>> >> ELSE <<>>)
        \o (IF cx + 1 < b.size THEN << <<cx + 1, cy>> >> ELSE <<>>)
        \o (IF cx - 1 >= 0 /\ cy + 1 <= b.size - 1 THEN << <<cx - 1, cy + 1>> >> ELSE <<>>)
        \o (IF cx + 1 < b.size /\ cy - 1 >= 0 THEN << <<cx + 1, cy - 1>> >> ELSE <<>>)
        \o (IF cy + 1 < b.size THEN << <<cx, cy + 1>> >> ELSE <<>>)
        \o (IF cy - 1 >= 0 THEN << <<cx, cy - 1>> >> ELSE <<>>)

\* HexBoard.is_legal_move
is_legal_move(b, move) ==
    move[1] >= 0 /\ move[1] < b.size /\ move[2] >= 0 /\ move[2] < b.size

\* HexBoard.is_empty
is_empty(b, c) == b.board[c] = EMPTY

\* HexBoard.is_color
is_color(b, c, color) == b.board[c] = color

\* HexBoard.get_opposite_color
get_opposite_color(color) == IF color = BLUE THEN RED ELSE BLUE

\* HexBoard.traverse: the depth-first walk.  The result is <<found, visited>>:
\* the dictionary `visited` is shared by the whole recursion, so it is threaded
\* through the calls; the loop over the neighbours stops at the first success.
RECURSIVE traverse(_, _, _, _)
RECURSIVE traverse_loop(_, _, _, _, _)
traverse(b, color, move, visited) ==
    IF ~is_color(b, move, color) \/ move \in visited
    THEN <<FALSE, visited>>
    ELSE IF border(b, color, move)
         THEN <<TRUE, visited>>
         ELSE traverse_loop(b, color, get_neighbors(b, move), 1, visited \cup {move})

traverse_loop(b, color, ns, k, visited) ==
    IF k > Len(ns)
    THEN <<FALSE, visited>>
    ELSE LET r == traverse(b, color, ns[k], visited)
         IN  IF r[1] THEN r ELSE traverse_loop(b, color, ns, k + 1, r[2])

\* HexBoard.check_win: one traversal, with a fresh dictionary, from every cell
\* of the start edge ((0, i) for BLUE, (i, 0) for RED)
RECURSIVE check_win_from(_, _, _)
check_win_from(b, color, i) ==
    IF i >= b.size
    THEN FALSE
    ELSE LET move == IF color = BLUE THEN <<0, i>> ELSE <<i, 0>>
         IN  IF traverse(b, color, move, {})[1]
             THEN TRUE
             ELSE check_win_from(b, color, i + 1)

check_win(b, color) == check_win_from(b, color, 0)

\* HexBoard.get_empty_cells: np.where lists the cells in row-major order
RECURSIVE cells_from(_, _)
cells_from(b, idx) ==
    IF idx >= b.size * b.size
    THEN <<>>
    ELSE LET c == <<idx \div b.size, idx % b.size>>
         IN  (IF b.board[c] = EMPTY THEN <<c>> ELSE <<>>) \o cells_from(b, idx + 1)

get_empty_cells(b) == cells_from(b, 0)

\* take that leaves the stone where it is
take_nothing(b, c) == b

\* HexBoard.take
take(b, c) == [b EXCEPT !.board[c] = EMPTY]

\* place that does not look at what the cell holds
place_on_any(b, c, color) ==
    IF ~is_legal_move(b, c)
    THEN <<FALSE, b>>
    ELSE <<TRUE, [b EXCEPT !.board[c] = color]>>

\* HexBoard.place: <<ok, board afterwards>>
place(b, c, color) ==
    IF ~is_legal_move(b, c) \/ b.board[c] # EMPTY
    THEN <<FALSE, b>>
    ELSE <<TRUE, [b EXCEPT !.board[c] = color]>>

\* HexBoard.tostring: np.array2string writes the rows in order, each row its
\* cells in order; the key is modelled as that nesting of the cell values
tostring(b) == [x \in 1 .. b.size |-> [y \in 1 .. b.size |-> b.board[<<x - 1, y - 1>>]]]

---------------------------------------------------------------------------
(* transpositiontable.py: move_list is a dictionary state -> depth -> (move, score), *)
(* modelled as a function on the stored states, each value a function on    *)
(* the stored depths                                                        *)

EmptyTable == <<>>

\* the smallest element in place of the largest
Max_smallest(S) == CHOOSE m \in S : \A k \in S : m <= k

Max(S) == CHOOSE m \in S : \A k \in S : k <= m

\* store that keeps the entry already present for (state, depth)
store_keep_first(move_list, depth, state, move, score) ==
    LET inner == IF state \in DOMAIN move_list THEN move_list[state] ELSE <<>>
        entry == [d \in DOMAIN inner \cup {depth} |->
                     IF d \in DOMAIN inner THEN inner[d] ELSE <<move, score>>]
    IN  [s \in DOMAIN move_list \cup {state} |->
            IF s = state THEN entry ELSE move_list[s]]

\* store that starts a new dictionary for the state at every call
store_new_dict(move_list, depth, state, move, score) ==
    [s \in DOMAIN move_list \cup {state} |->
        IF s = state THEN [d \in {depth} |-> <<move, score>>] ELSE move_list[s]]

\* TranspositionTable.store
store(move_list, depth, state, move, score) ==
    LET inner == IF state \in DOMAIN move_list THEN move_list[state] ELSE <<>>
        entry == [d \in DOMAIN inner \cup {depth} |->
                     IF d = depth THEN <<move, score>> ELSE inner[d]]
    IN  [s \in DOMAIN move_list \cup {state} |->
            IF s = state THEN entry ELSE move_list[s]]

\* TranspositionTable.lookup: <<hit code, move, score>>
lookup(move_list, depth, state) ==
    IF state \in DOMAIN move_list
    THEN IF depth \in DOMAIN move_list[state]
         THEN <<2, move_list[state][depth][1], move_list[state][depth][2]>>
         ELSE IF DOMAIN move_list[state] = {}
              THEN <<0, None, None>>
              ELSE LET maxdepth == Max(DOMAIN move_list[state])
                   IN  <<1, move_list[state][maxdepth][1], move_list[state][maxdepth][2]>>
    ELSE <<0, None, None>>

---------------------------------------------------------------------------
(* alphabetaplayer.py: the distance evaluation *)

INF == 9999
LOSE == 1000

\* path_cost with a stone of the player's colour costing a step as well
path_cost_stone_counts(b, color, target) ==
    IF is_empty(b, target) \/ is_color(b, target, color) THEN 1 ELSE LOSE

\* the cost of entering target_coord (dijkstra_update, path_cost)
path_cost(b, color, target) ==
    IF is_empty(b, target) THEN 1
    ELSE IF is_color(b, target, color) THEN 0
    ELSE LOSE

\* dijkstra_update, the loop over the neighbours of cell c; st holds the
\* arrays scores and updated and the flag updating
RECURSIVE relax_neighbors(_, _, _, _, _, _)
relax_neighbors(b, color, st, c, ns, k) ==
    IF k > Len(ns)
    THEN st
    ELSE LET target == ns[k]
             cost == st.scores[c] + path_cost(b, color, target)
         IN  IF st.scores[target] > cost
             THEN relax_neighbors(b, color,
                      [scores |-> [st.scores EXCEPT ![target] = cost],
                       updated |-> [st.updated EXCEPT ![target] = FALSE],
                       updating |-> TRUE],
                      c, ns, k + 1)
             ELSE relax_neighbors(b, color, st, c, ns, k + 1)

\* dijkstra_update, one pass of the two for loops (rows, then points)
RECURSIVE dijkstra_pass(_, _, _, _)
dijkstra_pass(b, color, st, idx) ==
    IF idx >= b.size * b.size
    THEN st
    ELSE LET c == <<idx \div b.size, idx % b.size>>
         IN  IF ~st.updated[c]
             THEN dijkstra_pass(b, color,
                      relax_neighbors(b, color, st, c, get_neighbors(b, c), 1), idx + 1)
             ELSE dijkstra_pass(b, color, st, idx + 1)

\* AlphaBetaPlayer.dijkstra_update: passes until one changes nothing
RECURSIVE dijkstra_update(_, _, _, _)
dijkstra_update(b, color, scores, updated) ==
    LET st == dijkstra_pass(b, color,
                  [scores |-> scores, updated |-> updated, updating |-> FALSE], 0)
    IN  IF st.updating
        THEN dijkstra_update(b, color, st.scores, st.updated)
        ELSE st.scores

\* a Python index: a negative one counts from the end
PyIndex(k, n) == IF k < 0 THEN k + n ELSE k

Min(S) == CHOOSE m \in S : \A k \in S : m <= k

\* AlphaBetaPlayer.get_dijkstra_score
get_dijkstra_score(b, color) ==
    LET n == b.size
        alignment == IF color = BLUE THEN <<0, 1>> ELSE <<1, 0>>
        seeds == {<<i * alignment[1], i * alignment[2]>> : i \in 0 .. n - 1}
        scores0 == [c \in Cells(n) |->
                       IF c \in seeds
                       THEN IF is_color(b, c, color) THEN 0
                            ELSE IF is_empty(b, c) THEN 1
                            ELSE LOSE
                       ELSE LOSE]
        updated0 == [c \in Cells(n) |-> c \notin seeds]
        scores == dijkstra_update(b, color, scores0, updated0)
        results == {scores[<<PyIndex(alignment[1] * i - 1 + alignment[1], n),
                             PyIndex(alignment[2] * i - 1 + alignment[2], n)>>] :
                        i \in 0 .. n - 1}
    IN  Min(results)

\* eval_dijkstra with the two distances exchanged
eval_dijkstra_exchanged(b, color) ==
    get_dijkstra_score(b, color) - get_dijkstra_score(b, get_opposite_color(color))

\* AlphaBetaPlayer.eval_dijkstra
eval_dijkstra(b, color) ==
    get_dijkstra_score(b, get_opposite_color(color)) - get_dijkstra_score(b, color)

---------------------------------------------------------------------------
(* alphabetaplayer.py: alphabeta_nega as the function it computes when the  *)
(* table is off (use_tt False) and no turn timer runs (turn_timer None).    *)
(* The board is a value here: place builds the child's board and take is    *)
(* the return to the caller's.  The result is <<best_value, best_move>>.    *)

RECURSIVE alphabeta_nega(_, _, _, _, _)
RECURSIVE alphabeta_moves(_, _, _, _, _, _, _, _)
RECURSIVE alphabeta_moves_same_window(_, _, _, _, _, _, _, _)
alphabeta_nega(b, color, alpha, beta, depth) ==
    IF depth <= 0 \/ check_win(b, get_opposite_color(color))
    THEN <<eval_dijkstra(b, color), None>>
    ELSE alphabeta_moves(b, color, alpha, beta, depth, get_empty_cells(b), 1, <<-INF, None>>)

\* the for loop with the recursive call given (-alpha, -beta), the bounds of
\* the window not exchanged
alphabeta_moves_same_window(b, color, alpha, beta, depth, moves, k, best) ==
    IF k > Len(moves)
    THEN best
    ELSE LET move == moves[k]
             child == place(b, move, color)[2]
             new_value == -alphabeta_nega(child, get_opposite_color(color),
                                          -alpha, -beta, depth - 1)[1]
             best2 == IF new_value > best[1] THEN <<new_value, move>> ELSE best
             alpha2 == IF best2[1] > alpha THEN best2[1] ELSE alpha
         IN  IF alpha2 >= beta
             THEN best2
             ELSE alphabeta_moves_same_window(b, color, alpha2, beta, depth, moves, k + 1, best2)

\* the for loop over the moves, from the k-th on; best is <<best_value, best_move>>
alphabeta_moves(b, color, alpha, beta, depth, moves, k, best) ==
    IF k > Len(moves)
    THEN best
    ELSE LET move == moves[k]
             child == place(b, move, color)[2]
             new_value == -alphabeta_nega(child, get_opposite_color(color),
                                          -beta, -alpha, depth - 1)[1]
             best2 == IF new_value > best[1] THEN <<new_value, move>> ELSE best
             alpha2 == IF best2[1] > alpha THEN best2[1] ELSE alpha
         IN  IF alpha2 >= beta
             THEN best2
             ELSE alphabeta_moves(b, color, alpha2, beta, depth, moves, k + 1, best2)

---------------------------------------------------------------------------
(* SpecBoard: every contents of a board, built by place and take; check_win *)
(* is called on each.                                                       *)

NoCall == [op |-> "none"]

\* ghost.turn_board: the board when do_turn was called; ghost.tainted: the
\* deadline ended a call somewhere in the search that runs from the root;
\* ghost.whole: (score, move) of the last search from the root that no
\* deadline cut short; ghost.in_time: the last of those that returned before
\* the deadline passed
NoHistory == [turn_board |-> <<>>, tainted |-> FALSE, whole |-> None, in_time |-> None]

\* MctsPlayer.__init__, line 38: no tree yet
NoTree == [nodes |-> <<>>, boards |-> <<>>, iter_count |-> 0, cur_node |-> 0,
           node |-> 0, winner |-> FALSE]

\* the values of the variables a specification does not use
Idle ==
    /\ player = [color |-> EMPTY, use_id |-> FALSE, use_tt |-> FALSE, max_depth |-> 1]
    /\ tt = EmptyTable
    /\ timer = [on |-> FALSE, expired |-> FALSE]
    /\ stack = <<>>
    /\ ret = [aborted |-> FALSE, value |-> 0, move |-> None]
    /\ idl = [depth |-> 0, bound |-> FALSE, best_score |-> 0, best_move |-> None]
    /\ pc = "none"
    /\ exc = ""
    /\ game = [player_start |-> 0, player_num |-> 0, colors |-> <<EMPTY, EMPTY>>]
    /\ ghost = NoHistory
    /\ mcts = NoTree

InitBoard ==
    /\ hb = NewBoard(BoardSize)
    /\ last = NoCall
    /\ Idle

\* board.place(c, color) on any cell
BoardPlace(c, color) ==
    /\ last = NoCall
    /\ place(hb, c, color)[1]
    /\ hb' = place(hb, c, color)[2]
    /\ UNCHANGED <<last, others>>

\* board.take(c)
BoardTake(c) ==
    /\ last = NoCall
    /\ hb.board[c] # EMPTY
    /\ hb' = take(hb, c)
    /\ UNCHANGED <<last, others>>

\* board.check_win(color): the result is kept in `last`
BoardCheckWin(color) ==
    /\ last = NoCall
    /\ last' = [op |-> "check_win", color |-> color, result |-> check_win(hb, color),
                before |-> hb.board]
    /\ UNCHANGED <<hb, others>>

\* the caller goes on
BoardReturn ==
    /\ last # NoCall
    /\ last' = NoCall
    /\ UNCHANGED <<hb, others>>

NextBoard ==
    \/ \E c \in Cells(hb.size), color \in Colors : BoardPlace(c, color)
    \/ \E c \in Cells(hb.size) : BoardTake(c)
    \/ \E color \in Colors : BoardCheckWin(color)
    \/ BoardReturn

SpecBoard == InitBoard /\ [][NextBoard]_vars

---------------------------------------------------------------------------
(* Connection of an edge to an edge, stated without the traversal *)

\* two cells of the hexagonal grid touch
Adjacent(c, d) ==
    <<d[1] - c[1], d[2] - c[2]>> \in
        {<<1, 0>>, <<-1, 0>>, <<0, 1>>, <<0, -1>>, <<1, -1>>, <<-1, 1>>}

StartEdge(b, color) ==
    {c \in Cells(b.size) : IF color = BLUE THEN c[1] = 0 ELSE c[2] = 0}

GoalEdge(b, color) ==
    {c \in Cells(b.size) : IF color = BLUE THEN c[1] = b.size - 1 ELSE c[2] = b.size - 1}

\* the cells of `color` that a chain of adjacent cells of `color` links to S
RECURSIVE ChainFrom(_, _, _)
ChainFrom(b, color, S) ==
    LET T == S \cup {c \in Cells(b.size) :
                        b.board[c] = color /\ \E d \in S : Adjacent(c, d)}
    IN  IF T = S THEN S ELSE ChainFrom(b, color, T)

Connected(b, color) ==
    ChainFrom(b, color, {c \in StartEdge(b, color) : b.board[c] = color})
        \cap GoalEdge(b, color) # {}

\* C9: check_win(color) is true exactly when a chain of adjacent cells of
\* color links color's start edge (BLUE: x = 0, RED: y = 0) to its goal edge
\* (BLUE: x = size-1, RED: y = size-1); on the all-empty board it is false for
\* both colors; the call leaves the board unchanged.
C9_CheckWinIsConnection ==
    last.op = "check_win" =>
        /\ last.result = Connected(hb, last.color)
        /\ (hb = NewBoard(hb.size) => last.result = FALSE)
        /\ hb.board = last.before

\* a winning chain that bends: BLUE wins with no straight row of BLUE cells
C9_Witness ==
    /\ last.op = "check_win"
    /\ last.color = BLUE
    /\ last.result = TRUE
    /\ \A y \in 0 .. hb.size - 1 : \E x \in 0 .. hb.size - 1 : hb.board[<<x, y>>] # BLUE
    /\ \E c \in Cells(hb.size) : hb.board[c] = RED

\* C10: at most one of check_win(BLUE), check_win(RED) is true, and on a
\* board with no empty cell exactly one of them is true.
C10_NoDraw ==
    /\ ~(check_win(hb, BLUE) /\ check_win(hb, RED))
    /\ (get_empty_cells(hb) = <<>> => (check_win(hb, BLUE) \/ check_win(hb, RED)))

\* a full board, won by RED
C10_Witness ==
    /\ get_empty_cells(hb) = <<>>
    /\ check_win(hb, RED)
    /\ last.op = "check_win"

---------------------------------------------------------------------------
(* Spec: Hex.play between players[0], an AlphaBetaPlayer with the distance  *)
(* evaluation, and players[1], a HumanPlayer who may type any move.         *)
(* alphabeta_nega runs one step at a time on the live board; the deadline   *)
(* of the turn may pass between any two steps.                              *)

AI == 0
HUMAN == 1

Top == stack[Len(stack)]
Pop == SubSeq(stack, 1, Len(stack) - 1)

\* a new activation record of alphabeta_nega(color, alpha, beta, depth): the
\* locals best_move and best_value as lines 254-255 set them; `entry` is the
\* board's contents at the call, kept for the properties
Frame(color, alpha, beta, depth, board) ==
    [color |-> color, alpha |-> alpha, beta |-> beta, depth |-> depth,
     at |-> "entry", moves |-> <<>>, i |-> 0, tt_move |-> None,
     best_value |-> -INF, best_move |-> None, entry |-> board]

NoRet == [aborted |-> FALSE, value |-> 0, move |-> None]

\* the state before Hex.play: a board of side n and an AlphaBetaPlayer built
\* with one of the given settings
InitGame(n, ids, tts, depths) ==
    /\ hb = NewBoard(n)
    /\ last = NoCall
    /\ \E id \in ids, use_tt \in tts, d \in depths :
          player = [color |-> EMPTY, use_id |-> id, use_tt |-> use_tt, max_depth |-> d]
    /\ tt = EmptyTable
    /\ timer = [on |-> FALSE, expired |-> FALSE]
    /\ stack = <<>>
    /\ ret = NoRet
    /\ idl = [depth |-> 0, bound |-> FALSE, best_score |-> 0, best_move |-> None]
    /\ pc = "play"
    /\ exc = ""
    /\ game = [player_start |-> 0, player_num |-> 0, colors |-> <<EMPTY, EMPTY>>]
    /\ ghost = NoHistory
    /\ mcts = NoTree

Init == InitGame(GameSize, BOOLEAN, BOOLEAN, 1 .. MaxDepth)

\* Hex.play(player_start), lines 62-65, with prepare_game: a new board, every
\* player reset, BLUE for the player who starts
Play(player_start) ==
    /\ pc = "play"
    /\ hb' = NewBoard(hb.size)
    /\ tt' = EmptyTable
    /\ player' = [player EXCEPT !.color = IF player_start = AI THEN BLUE ELSE RED]
    /\ game' = [player_start |-> player_start, player_num |-> player_start,
                colors |-> [i \in {AI, HUMAN} |-> IF i = player_start THEN BLUE ELSE RED]]
    /\ pc' = "loop"
    /\ UNCHANGED <<last, timer, stack, ret, idl, exc, ghost, mcts>>

\* Hex.play, line 67: the test of the while loop, and lines 84-106 after it
LoopTest ==
    /\ pc = "loop"
    /\ pc' = IF check_win(hb, get_opposite_color(game.colors[game.player_num]))
             THEN "done" ELSE "turn"
    /\ UNCHANGED <<hb, last, player, tt, timer, stack, ret, idl, exc, game, ghost, mcts>>

\* HumanPlayer.do_turn and lines 75-76 of Hex.play: the moves place refuses are
\* asked again, so the turn ends with one legal move placed
HumanDoTurn(c) ==
    /\ pc = "turn"
    /\ game.player_num = HUMAN
    /\ place(hb, c, game.colors[HUMAN])[1]
    /\ hb' = place(hb, c, game.colors[HUMAN])[2]
    /\ game' = [game EXCEPT !.player_num = (game.player_num + 1) % 2]
    /\ pc' = "loop"
    /\ last' = NoCall
    /\ UNCHANGED <<player, tt, timer, stack, ret, idl, exc, ghost, mcts>>

\* AlphaBetaPlayer.do_turn, lines 155-170: to the first call of alphabeta_nega,
\* through timed_turn_loop (lines 126-129) when use_id
DoTurnStart ==
    /\ pc = "turn"
    /\ game.player_num = AI
    /\ ghost' = [NoHistory EXCEPT !.turn_board = hb.board]
    /\ IF player.use_id
       THEN /\ timer' = [on |-> TRUE, expired |-> FALSE]
            /\ idl' = [depth |-> 1, bound |-> FALSE, best_score |-> 0, best_move |-> None]
            /\ stack' = <<Frame(player.color, -INF, INF, 1, hb.board)>>
            /\ pc' = "id_search"
       ELSE /\ stack' = <<Frame(player.color, -INF, INF, player.max_depth, hb.board)>>
            /\ pc' = "search"
            /\ UNCHANGED <<timer, idl>>
    /\ ret' = NoRet
    /\ last' = NoCall
    /\ UNCHANGED <<hb, player, tt, exc, game, mcts>>

\* the clock passes turn_timer + max_time
DeadlineExpires ==
    /\ timer.on
    /\ ~timer.expired
    /\ timer' = [timer EXCEPT !.expired = TRUE]
    /\ UNCHANGED <<hb, last, player, tt, stack, ret, idl, pc, exc, game, ghost, mcts>>

\* an exception leaves alphabeta_nega, timed_turn_loop, do_turn and Hex.play:
\* no handler is anywhere, and the board stays as it is
Raise(name, board) ==
    /\ exc' = name
    /\ pc' = "crashed"
    /\ stack' = <<>>
    /\ last' = [op |-> "do_turn", raised |-> TRUE, color |-> player.color,
                before |-> ghost.turn_board, after |-> board]

\* the return of the innermost call: (None, None) when how = "abort"
Return(value, move, how, board) ==
    /\ stack' = Pop
    /\ ret' = [aborted |-> (how = "abort"), value |-> value, move |-> move]
    /\ last' = [op |-> "alphabeta_nega", how |-> how, level |-> Len(stack),
                depth |-> Top.depth, color |-> Top.color,
                alpha |-> Top.alpha, beta |-> Top.beta,
                entry |-> Top.entry, exit |-> board,
                aborted |-> (how = "abort"), value |-> value, move |-> move]
    /\ ghost' = IF how \in {"abort", "partial"}
                THEN [ghost EXCEPT !.tainted = TRUE]
                ELSE IF Len(stack) = 1 /\ ~ghost.tainted
                THEN [ghost EXCEPT !.whole = <<value, move>>,
                                   !.in_time = IF timer.expired THEN @ ELSE <<value, move>>]
                ELSE ghost

\* alphabeta_nega, lines 313-319: the store when the table is used, and the
\* return of best_value and best_move
Finish(best_value, best_move, how, b) ==
    IF player.use_tt /\ best_move = None
    THEN /\ Raise("AssertionError", b.board)
         /\ UNCHANGED <<tt, ret, ghost>>
    ELSE /\ tt' = IF player.use_tt
                  THEN store(tt, Top.depth, tostring(b), best_move, best_value)
                  ELSE tt
         /\ Return(best_value, best_move, how, b.board)
         /\ UNCHANGED <<pc, exc>>

\* alphabeta_nega, lines 250-285: the deadline, the table, the end of the
\* search, the list of the moves
ABEnter ==
    /\ stack # <<>>
    /\ Top.at = "entry"
    /\ LET f == Top
           hit == IF player.use_tt THEN lookup(tt, f.depth, tostring(hb))
                  ELSE <<0, None, None>>
           moves0 == get_empty_cells(hb)
           moves == IF player.use_tt /\ hit[2] # None THEN <<hit[2]>> \o moves0 ELSE moves0
       IN  IF timer.on /\ timer.expired
           THEN /\ Return(0, None, "abort", hb.board)
                /\ UNCHANGED <<tt, pc, exc>>
           ELSE IF player.use_tt /\ hit[1] = 2
           THEN /\ Return(hit[3], hit[2], "tt", hb.board)
                /\ UNCHANGED <<tt, pc, exc>>
           ELSE IF f.depth <= 0 \/ check_win(hb, get_opposite_color(f.color))
           THEN /\ Return(eval_dijkstra(hb, f.color), None, "leaf", hb.board)
                /\ UNCHANGED <<tt, pc, exc>>
           ELSE IF moves = <<>>
           THEN Finish(f.best_value, f.best_move, "complete", hb)
           ELSE /\ stack' = [stack EXCEPT ![Len(stack)] =
                                [f EXCEPT !.at = "loop", !.moves = moves, !.i = 1,
                                          !.tt_move = hit[2]]]
                /\ UNCHANGED <<last, tt, ret, pc, exc, ghost>>
    /\ UNCHANGED <<hb, player, timer, idl, game, mcts>>

\* alphabeta_nega, lines 287-292: the move is placed and the call is made
ABCall ==
    /\ stack # <<>>
    /\ Top.at = "loop"
    /\ LET f == Top
           move == f.moves[f.i]
           b == place(hb, move, f.color)[2]
       IN  /\ hb' = b
           /\ stack' = Append([stack EXCEPT ![Len(stack)] = [f EXCEPT !.at = "await"]],
                              Frame(get_opposite_color(f.color), -f.beta, -f.alpha,
                                    f.depth - 1, b.board))
    /\ UNCHANGED <<last, player, tt, timer, ret, idl, pc, exc, game, ghost, mcts>>

\* alphabeta_nega, lines 296-311 and, when the loop ends, lines 313-319
ABAfterCall ==
    /\ stack # <<>>
    /\ Top.at = "await"
    /\ LET f == Top
           move == f.moves[f.i]
           b == take(hb, move)
           new_value == -ret.value
           better == new_value > f.best_value
           best_value == IF better THEN new_value ELSE f.best_value
           best_move == IF better THEN move ELSE f.best_move
           alpha == IF best_value > f.alpha THEN best_value ELSE f.alpha
       IN  /\ hb' = b
           /\ IF ret.aborted
              THEN /\ Return(f.best_value, f.best_move, "partial", b.board)
                   /\ UNCHANGED <<tt, pc, exc>>
              ELSE IF alpha >= f.beta
              THEN Finish(best_value, best_move, "cut", b)
              ELSE IF f.i = Len(f.moves)
              THEN Finish(best_value, best_move, "complete", b)
              ELSE /\ stack' = [stack EXCEPT ![Len(stack)] =
                                   [f EXCEPT !.at = "loop", !.i = f.i + 1, !.alpha = alpha,
                                             !.best_value = best_value,
                                             !.best_move = best_move]]
                   /\ UNCHANGED <<last, tt, ret, pc, exc, ghost>>
    /\ UNCHANGED <<player, timer, idl, game, mcts>>

\* timed_turn_loop, lines 131-146, after the call of line 129 returned, up
\* to the next call of line 129 or the return.  Once the root call itself
\* returns (None, None) the deadline has passed, so every later iteration of
\* the for loop returns (None, None) at once and changes nothing: they are
\* taken together.
TimedTurnLoopStep ==
    /\ pc = "id_search"
    /\ stack = <<>>
    /\ LET got == ~ret.aborted /\ ret.move # None
           late == timer.expired
           unbound_133 == got /\ late /\ ~idl.bound
           assign == got /\ (~late \/ (idl.bound /\ ret.value > idl.best_score))
           bound == idl.bound \/ assign
           best_score == IF assign THEN ret.value ELSE idl.best_score
           best_move == IF assign THEN ret.move ELSE idl.best_move
       IN  IF unbound_133 \/ ~bound
           THEN /\ Raise("UnboundLocalError", hb.board)
                /\ UNCHANGED <<timer, ret, idl, ghost>>
           ELSE IF best_score >= LOSE \/ best_score <= -LOSE
                   \/ ret.aborted \/ idl.depth + 1 >= INF
           THEN /\ timer' = [on |-> FALSE, expired |-> FALSE]
                /\ ret' = [aborted |-> FALSE, value |-> best_score, move |-> best_move]
                /\ idl' = [idl EXCEPT !.bound = bound, !.best_score = best_score,
                                      !.best_move = best_move]
                /\ pc' = "place"
                /\ last' = [op |-> "timed_turn_loop", value |-> best_score,
                            move |-> best_move]
                /\ UNCHANGED <<stack, exc, ghost>>
           ELSE /\ idl' = [depth |-> idl.depth + 1, bound |-> bound,
                           best_score |-> best_score, best_move |-> best_move]
                /\ stack' = <<Frame(player.color, -INF, INF, idl.depth + 1, hb.board)>>
                /\ ghost' = [ghost EXCEPT !.tainted = FALSE]
                /\ UNCHANGED <<last, timer, ret, pc, exc>>
    /\ UNCHANGED <<hb, player, tt, game, mcts>>

\* AlphaBetaPlayer.do_turn, lines 172-181, and lines 75-76 of Hex.play:
\* board.place(best_move, color); is_legal_move subscripts the move, which
\* raises TypeError when the move is None
DoTurnEnd ==
    /\ stack = <<>>
    /\ pc \in {"search", "place"}
    /\ IF ret.move = None
       THEN /\ Raise("TypeError", hb.board)
            /\ UNCHANGED <<hb, game>>
       ELSE /\ hb' = place(hb, ret.move, player.color)[2]
            /\ game' = [game EXCEPT !.player_num = (game.player_num + 1) % 2]
            /\ pc' = "loop"
            /\ last' = [op |-> "do_turn", raised |-> FALSE, color |-> player.color,
                        before |-> ghost.turn_board,
                        after |-> place(hb, ret.move, player.color)[2].board]
            /\ UNCHANGED <<stack, exc>>
    /\ UNCHANGED <<player, tt, timer, ret, idl, ghost, mcts>>

Next ==
    \/ \E player_start \in {AI, HUMAN} : Play(player_start)
    \/ LoopTest
    \/ \E c \in Cells(hb.size) : HumanDoTurn(c)
    \/ DoTurnStart
    \/ DeadlineExpires
    \/ ABEnter
    \/ ABCall
    \/ ABAfterCall
    \/ TimedTurnLoopStep
    \/ DoTurnEnd

Spec == Init /\ [][Next]_vars

\* The steps agree with the function alphabeta_nega above: a search from the
\* root with the table off and no timer returns what the function does.
StepsAgreeWithFunction ==
    (pc = "search" /\ stack = <<>> /\ ~player.use_tt) =>
        <<ret.value, ret.move>> =
            alphabeta_nega(hb, player.color, -INF, INF, player.max_depth)

\* the cells in which two contents of the board differ
Changed(before, after) == {c \in DOMAIN before : before[c] # after[c]}

\* C1: a do_turn call of an AI player on a board with an empty cell and no
\* winner ends with exactly one cell changed, from Empty to the player's color.
C1_DoTurnPlacesOneStone ==
    (/\ last.op = "do_turn"
     /\ \E c \in DOMAIN last.before : last.before[c] = EMPTY
     /\ \A color \in Colors : ~Connected([size |-> hb.size, board |-> last.before], color))
    => /\ ~last.raised
       /\ \E c \in DOMAIN last.before :
             /\ Changed(last.before, last.after) = {c}
             /\ last.before[c] = EMPTY
             /\ last.after[c] = last.color

\* C2: when a call of alphabeta_nega returns, the board's contents are those
\* at its entry, whichever way it returns.
C2_BoardRestoredOnReturn ==
    last.op = "alphabeta_nega" => last.exit = last.entry

\* a return forced by the deadline at least one level below the root, with
\* stones of the search on the board: the caller of an aborted call returns
C2_Witness ==
    /\ last.op = "alphabeta_nega"
    /\ last.how = "partial"
    /\ last.level >= 2
    /\ last.exit = last.entry
    /\ last.entry # ghost.turn_board

\* C3: a call whose nested call returned (None, None) undoes its move and
\* returns (None, None) itself, never a score or a move.
C3_AbortPropagates ==
    (last.op = "alphabeta_nega" /\ last.how = "partial") =>
        /\ last.aborted
        /\ last.exit = last.entry

\* C4: timed_turn_loop returns an empty cell of the live board and a score,
\* also when the deadline passes before the search of depth 1 has completed.
C4_TimedLoopAlwaysMoves ==
    (player.use_id /\ pc \in {"place", "crashed"}) =>
        /\ exc = ""
        /\ ret.move # None
        /\ hb.board[ret.move] = EMPTY

\* C5: what timed_turn_loop returns is the result of the last depth whose
\* search ran to completion before the deadline; a depth in whose search the
\* deadline was hit contributes nothing.  (A search that the deadline did not
\* cut but that returned after it counts as completed here, or not: both
\* readings are allowed.)
C5_LastCompletedDepth ==
    (player.use_id /\ pc = "place") =>
        <<ret.value, ret.move>> \in {ghost.whole, ghost.in_time}

---------------------------------------------------------------------------
(* SpecTable: the same game on a board of side TableSize, the player built  *)
(* with the table on, no iterative deepening (so no deadline) and the fixed *)
(* search depth TableDepth.  The table is emptied by Hex.play only, so each *)
(* search finds what the earlier searches of the game stored.               *)

InitTable == InitGame(TableSize, {FALSE}, {TRUE}, {TableDepth})

NextTable ==
    \/ \E player_start \in {AI, HUMAN} : Play(player_start)
    \/ LoopTest
    \/ \E c \in Cells(hb.size) : HumanDoTurn(c)
    \/ DoTurnStart
    \/ ABEnter
    \/ ABCall
    \/ ABAfterCall
    \/ DoTurnEnd

SpecTable == InitTable /\ [][NextTable]_vars

\* C6: a search of fixed depth from the root, with no deadline and the table
\* on, returns the (score, move) of the same call with the table off, the
\* table holding what the earlier searches of the game stored.
C6_TableKeepsResult ==
    (pc = "search" /\ stack = <<>> /\ player.use_tt) =>
        <<ret.value, ret.move>> =
            alphabeta_nega(hb, player.color, -INF, INF, player.max_depth)

---------------------------------------------------------------------------
(* SpecSearch: alphabeta_nega with the table off and no timer, called with  *)
(* the full window for the side to move on every position a game reaches on *)
(* a board of side SearchSize, with every depth in 1 .. SearchDepth, and    *)
(* in 1 .. DeepDepth where at most DeepEmpty cells are empty                *)

\* the color of the player whose turn it is in Hex.play: BLUE starts and the
\* turns alternate
SideToMove(b) ==
    IF Cardinality({c \in Cells(b.size) : b.board[c] = BLUE})
           = Cardinality({c \in Cells(b.size) : b.board[c] = RED})
    THEN BLUE
    ELSE RED

InitSearch ==
    /\ hb = NewBoard(SearchSize)
    /\ last = NoCall
    /\ Idle

\* one turn of Hex.play: while the player who moved last has not won, the
\* player whose turn it is places a stone on an empty cell
SearchPlace(c) ==
    /\ last = NoCall
    /\ ~check_win(hb, get_opposite_color(SideToMove(hb)))
    /\ place(hb, c, SideToMove(hb))[1]
    /\ hb' = place(hb, c, SideToMove(hb))[2]
    /\ UNCHANGED <<last, others>>

\* player.alphabeta_nega(color, -INF, INF, depth) on the board as it stands
SearchCall(depth) ==
    /\ last = NoCall
    /\ depth <= (IF Len(get_empty_cells(hb)) <= DeepEmpty THEN DeepDepth ELSE SearchDepth)
    /\ last' = [op |-> "alphabeta_nega", color |-> SideToMove(hb), depth |-> depth,
                result |-> alphabeta_nega(hb, SideToMove(hb), -INF, INF, depth)]
    /\ UNCHANGED <<hb, others>>

NextSearch ==
    \/ \E c \in Cells(hb.size) : SearchPlace(c)
    \/ \E depth \in 1 .. DeepDepth : SearchCall(depth)
    \/ BoardReturn

SpecSearch == InitSearch /\ [][NextSearch]_vars

\* exhaustive negamax: every empty cell in row-major order, no window, the
\* first maximum kept; the same test for the end of the search as the code's
RECURSIVE negamax(_, _, _)
RECURSIVE negamax_moves(_, _, _, _, _, _)
negamax(b, color, depth) ==
    IF depth <= 0 \/ check_win(b, get_opposite_color(color))
    THEN <<eval_dijkstra(b, color), None>>
    ELSE negamax_moves(b, color, depth, get_empty_cells(b), 1, <<-INF, None>>)

negamax_moves(b, color, depth, moves, k, best) ==
    IF k > Len(moves)
    THEN best
    ELSE LET v == -negamax(place(b, moves[k], color)[2],
                           get_opposite_color(color), depth - 1)[1]
         IN  negamax_moves(b, color, depth, moves, k + 1,
                           IF v > best[1] THEN <<v, moves[k]>> ELSE best)

\* C7: with the table off, the distance evaluation and no deadline,
\* alphabeta_nega with the full window returns the move and the score of the
\* exhaustive negamax, for every position and every depth >= 1.
C7_PruningKeepsResult ==
    last.op = "alphabeta_nega" =>
        last.result = negamax(hb, last.color, last.depth)

\* a call of depth >= 2 in which the window pruned: searched after the
\* first move, within the window the first move's value leaves, the second
\* move gets a value that is not its exhaustive one
C7_Witness ==
    /\ last.op = "alphabeta_nega"
    /\ last.depth >= 2
    /\ Len(get_empty_cells(hb)) >= 3
    /\ LET moves == get_empty_cells(hb)
           opp == get_opposite_color(last.color)
           first == -negamax(place(hb, moves[1], last.color)[2], opp, last.depth - 1)[1]
           child == place(hb, moves[2], last.color)[2]
       IN  alphabeta_nega(child, opp, -INF, -first, last.depth - 1)[1]
               # negamax(child, opp, last.depth - 1)[1]

\* the cells whose placement completes color's connection
WinningCells(b, color) ==
    {c \in Cells(b.size) : b.board[c] = EMPTY /\ ~Connected(b, color)
                           /\ Connected(place(b, c, color)[2], color)}

\* C8: where the side to move has a cell that completes its connection, the
\* search returns a score >= LOSE and a move that completes the connection.
C8_FindsImmediateWin ==
    (last.op = "alphabeta_nega" /\ WinningCells(hb, last.color) # {}) =>
        /\ last.result[1] >= LOSE
        /\ last.result[2] \in WinningCells(hb, last.color)

\* color, having placed a stone on c with n plies of search left (the
\* placement is the first of them), is connected, or stays able to connect
\* within the n plies whatever the other side replies
RECURSIVE WinsAfter(_, _, _, _)
WinsAfter(b, color, c, n) ==
    LET opp == get_opposite_color(color)
        b1 == place(b, c, color)[2]
        free1 == {d \in Cells(b.size) : b1.board[d] = EMPTY}
    IN  \/ Connected(b1, color)
        \/ /\ n >= 3
           /\ free1 # {}
           /\ \A d \in free1 :
                 LET b2 == place(b1, d, opp)[2]
                 IN  /\ ~Connected(b2, opp)
                     /\ \E e \in Cells(b.size) :
                           b2.board[e] = EMPTY /\ WinsAfter(b2, color, e, n - 2)

\* C8 (amended): where the side to move has a cell that completes its
\* connection, the search returns a score >= LOSE and a move that completes
\* the connection or after which the side connects within the depth
\* whatever the replies; at depth 1 and 2 the move completes the connection.
C8_FindsWinWithinDepth ==
    (last.op = "alphabeta_nega" /\ WinningCells(hb, last.color) # {}) =>
        /\ last.result[1] >= LOSE
        /\ last.result[2] # None
        /\ hb.board[last.result[2]] = EMPTY
        /\ WinsAfter(hb, last.color, last.result[2], last.depth)
        /\ (last.depth <= 2 => last.result[2] \in WinningCells(hb, last.color))

\* a search of depth >= 3 that returns, with the score LOSE, a move that does
\* not complete the connection although another cell does
C8_Witness ==
    /\ last.op = "alphabeta_nega"
    /\ last.depth >= 3
    /\ WinningCells(hb, last.color) # {}
    /\ last.result[1] = LOSE
    /\ last.result[2] \notin WinningCells(hb, last.color)

---------------------------------------------------------------------------
(* SpecCache: the table of one player through its games: any store and any  *)
(* lookup, on the keys CacheKeys and the depths 1 .. CacheDepth, and the    *)
(* reset that Hex.prepare_game makes at the start of a game.  ghost is the  *)
(* record of the calls: the (move, score) of the most recent store of each  *)
(* (state, depth) since the reset.                                          *)

CacheKeys ==
    {tostring(NewBoard(GameSize)),
     tostring(place(NewBoard(GameSize), <<0, 0>>, BLUE)[2])}

\* the (move, score) pairs that are stored
CacheEntries == {<<<<0, 0>>, 0>>, <<<<0, 1>>, LOSE>>}

InitCache ==
    /\ hb = NewBoard(GameSize)
    /\ last = NoCall
    /\ player = [color |-> EMPTY, use_id |-> FALSE, use_tt |-> TRUE, max_depth |-> 1]
    /\ tt = EmptyTable
    /\ timer = [on |-> FALSE, expired |-> FALSE]
    /\ stack = <<>>
    /\ ret = NoRet
    /\ idl = [depth |-> 0, bound |-> FALSE, best_score |-> 0, best_move |-> None]
    /\ pc = "none"
    /\ exc = ""
    /\ game = [player_start |-> 0, player_num |-> 0, colors |-> <<EMPTY, EMPTY>>]
    /\ ghost = <<>>
    /\ mcts = NoTree

\* tt.store(depth, state, move, score)
CacheStore(depth, state, move, score) ==
    /\ last = NoCall
    /\ tt' = store(tt, depth, state, move, score)
    /\ last' = [op |-> "store", depth |-> depth, state |-> state,
                move |-> move, score |-> score]
    /\ ghost' = [sd \in DOMAIN ghost \cup {<<state, depth>>} |->
                    IF sd = <<state, depth>> THEN <<move, score>> ELSE ghost[sd]]
    /\ UNCHANGED <<hb, player, timer, stack, ret, idl, pc, exc, game, mcts>>

\* tt.lookup(depth, state): the table is only read
CacheLookup(depth, state) ==
    /\ last = NoCall
    /\ last' = [op |-> "lookup", depth |-> depth, state |-> state,
                result |-> lookup(tt, depth, state)]
    /\ UNCHANGED <<hb, player, tt, timer, stack, ret, idl, pc, exc, game, ghost, mcts>>

\* Hex.prepare_game: player.reset() gives the player a new, empty table
CachePrepareGame ==
    /\ last = NoCall
    /\ tt' = EmptyTable
    /\ last' = [op |-> "reset"]
    /\ ghost' = <<>>
    /\ UNCHANGED <<hb, player, timer, stack, ret, idl, pc, exc, game, mcts>>

\* the caller goes on
CacheReturn ==
    /\ last # NoCall
    /\ last' = NoCall
    /\ UNCHANGED <<hb, player, tt, timer, stack, ret, idl, pc, exc, game, ghost, mcts>>

NextCache ==
    \/ \E depth \in 1 .. CacheDepth, state \in CacheKeys, e \in CacheEntries :
          CacheStore(depth, state, e[1], e[2])
    \/ \E depth \in 1 .. CacheDepth, state \in CacheKeys : CacheLookup(depth, state)
    \/ CachePrepareGame
    \/ CacheReturn

SpecCache == InitCache /\ [][NextCache]_vars

\* the depths at which a store was made for the state since the reset
StoredDepths(state) == {d \in 1 .. CacheDepth : <<state, d>> \in DOMAIN ghost}

\* C11: lookup(d, k) returns hit code 2 with exactly the (move, score) of the
\* most recent store(d, k, move, score), and on a key that was never stored
\* it returns hit code 0 with no move and no score.
C11_LookupReturnsLastStore ==
    last.op = "lookup" =>
        /\ <<last.state, last.depth>> \in DOMAIN ghost =>
               last.result = <<2, ghost[<<last.state, last.depth>>][1],
                                  ghost[<<last.state, last.depth>>][2]>>
        /\ StoredDepths(last.state) = {} => last.result = <<0, None, None>>

\* an exact hit on one key while the other key was never stored
C11_Witness ==
    /\ last.op = "lookup"
    /\ last.result[1] = 2
    /\ last.result[2] = <<0, 1>>
    /\ last.result[3] = LOSE
    /\ \E k \in CacheKeys : k \notin DOMAIN tt

EntryOf(move_list, state, depth) ==
    IF state \in DOMAIN move_list /\ depth \in DOMAIN move_list[state]
    THEN move_list[state][depth]
    ELSE None

\* C13: store(d, k, move, score) inserts or overwrites exactly the entry of
\* (k, d) and leaves every other entry unchanged; lookup changes nothing; an
\* entry disappears only through the reset of prepare_game, which leaves the
\* table empty.
C13_CacheOnlyGrows ==
    [][/\ last'.op = "store" =>
             \A k \in CacheKeys, d \in 1 .. CacheDepth :
                 EntryOf(tt', k, d) =
                     IF k = last'.state /\ d = last'.depth
                     THEN <<last'.move, last'.score>>
                     ELSE EntryOf(tt, k, d)
       /\ last'.op = "lookup" => tt' = tt
       /\ last'.op = "reset" => tt' = EmptyTable
       /\ (\E k \in CacheKeys, d \in 1 .. CacheDepth :
               EntryOf(tt, k, d) # None /\ EntryOf(tt', k, d) = None)
             => last'.op = "reset"]_vars

\* a store for a key that has entries at several depths, the other key
\* stored too
C13_Witness ==
    /\ last.op = "store"
    /\ Cardinality(StoredDepths(last.state)) >= 2
    /\ \A k \in CacheKeys : k \in DOMAIN tt
    /\ \E k \in CacheKeys : Cardinality(DOMAIN tt[k]) = CacheDepth


\* ---------------------------------------------------------------------------
\* The table inside the search (alphabetaplayer.py, lines 249-268)
\* ---------------------------------------------------------------------------

\* the table's answer for the position and depth of the call that `last`
\* reports; a call that returned before line 271 has stored nothing, so the
\* table is the one the call found
EntryAtCall == lookup(tt, last.depth, tostring([size |-> hb.size, board |-> last.entry]))

\* the calls that returned from lines 250-275, before the loop over the moves
ReturnedBeforeLoop ==
    /\ last # NoCall
    /\ last.op = "alphabeta_nega"
    /\ last.how \in {"abort", "tt", "leaf"}

\* C14: a call of alphabeta_nega that finds an entry of exactly its depth for
\* the current position returns that entry's score and move without
\* searching, whether or not the deadline has passed
C14_ExactEntryIsReturned ==
    (ReturnedBeforeLoop /\ player.use_tt /\ EntryAtCall[1] = 2)
        => /\ last.how = "tt"
           /\ ~last.aborted
           /\ last.value = EntryAtCall[3]
           /\ last.move = EntryAtCall[2]

\* the same, for the calls made before the deadline only
C14_ExactEntryIsReturnedInTime ==
    (ReturnedBeforeLoop /\ player.use_tt /\ EntryAtCall[1] = 2 /\ last.how # "abort")
        => /\ last.how = "tt"
           /\ last.value = EntryAtCall[3]
           /\ last.move = EntryAtCall[2]

\* a call reached the loop over the moves only without an exact entry
C14_NoSearchWithExactEntry ==
    \A i \in 1 .. Len(stack) :
        (player.use_tt /\ stack[i].at # "entry")
            => stack[i].depth \notin
                 (IF tostring([size |-> hb.size, board |-> stack[i].entry]) \in DOMAIN tt
                  THEN DOMAIN tt[tostring([size |-> hb.size, board |-> stack[i].entry])]
                  ELSE {})

\* an exact entry was returned from the table
C14_WitnessHit == ReturnedBeforeLoop /\ last.how = "tt"


\* ---------------------------------------------------------------------------
\* The distance of the evaluation (alphabetaplayer.py, lines 85-116, 184-222)
\* ---------------------------------------------------------------------------

\* player.get_dijkstra_score(color) on the board as it is: the result is kept
\* in `last`
ScoreCall(color) ==
    /\ last = NoCall
    /\ last' = [op |-> "get_dijkstra_score", color |-> color,
                result |-> get_dijkstra_score(hb, color), before |-> hb.board]
    /\ UNCHANGED <<hb, others>>

NextScore ==
    \/ NextBoard
    \/ \E color \in Colors : ScoreCall(color)

SpecScore == InitBoard /\ [][NextScore]_vars

\* S is the set of the cells that a chain from the start edge without a cell
\* of the opponent reaches through at most k Empty cells; the result is the
\* least k with which the goal edge is reached, LOSE when there is none
RECURSIVE FewestEmpty(_, _, _, _)
FewestEmpty(b, color, S, k) ==
    IF S \cap GoalEdge(b, color) # {}
    THEN k
    ELSE LET step == {c \in Cells(b.size) :
                         /\ b.board[c] = EMPTY
                         /\ \/ c \in StartEdge(b, color)
                            \/ \E d \in S : Adjacent(c, d)}
             T == ChainFrom(b, color, S \cup step)
         IN  IF T = S THEN LOSE ELSE FewestEmpty(b, color, T, k + 1)

ShortestChain(b, color) ==
    FewestEmpty(b, color,
        ChainFrom(b, color, {c \in StartEdge(b, color) : b.board[c] = color}), 0)

\* C15: get_dijkstra_score(color) is the least number of Empty cells on a chain
\* of adjacent cells from the start edge of the colour to its goal edge that
\* holds no cell of the opponent, 0 when the edges are connected already and
\* LOSE when there is no such chain
C15_ScoreIsShortestChain ==
    (last.op = "get_dijkstra_score")
        => /\ last.result = ShortestChain(hb, last.color)
           /\ (last.result = 0) = Connected(hb, last.color)
           /\ last.before = hb.board

\* the shortest chain needs two more stones and no straight line of the board
\* is free of the opponent
C15_Witness ==
    /\ last.op = "get_dijkstra_score"
    /\ last.result = 2
    /\ \A i \in 0 .. hb.size - 1 :
          \E j \in 0 .. hb.size - 1 :
              hb.board[IF last.color = BLUE THEN <<j, i>> ELSE <<i, j>>]
                  = get_opposite_color(last.color)


---------------------------------------------------------------------------
(* SpecMcts: Hex.play between players[0], an MctsPlayer, and players[1], a *)
(* HumanPlayer (mctsplayer.py). A node refers to a HexBoard object: 0 is   *)
(* the live board, k > 0 the k-th board that copy_state has made.          *)

\* the HexBoard objects there are: the live one and the copies
Heap == [live |-> hb, boards |-> mcts.boards]

\* the object a reference stands for, and an assignment to it
Get(H, r) == IF r = 0 THEN H.live ELSE H.boards[r]
Put(H, r, b) == IF r = 0 THEN [H EXCEPT !.live = b] ELSE [H EXCEPT !.boards[r] = b]

\* copy_state that hands out the object itself
copy_state_same_object(H, r) == <<H, r>>

\* HexBoard.copy_state: <<the objects afterwards, the reference to the copy>>
copy_state(H, r) == <<[H EXCEPT !.boards = Append(@, Get(H, r))], Len(H.boards) + 1>>

\* MctsNode.__init__; parent 0 is None
MctsNode(H, state, color_to_move, mcts_color, parent) ==
    [state |-> state, move |-> None, parent |-> parent,
     color_to_move |-> color_to_move, mcts_color |-> mcts_color,
     children |-> <<>>, no_visits |-> 0, no_wins |-> 0,
     untried_moves |-> get_empty_cells(Get(H, state))]

\* MctsNode.is_leaf
is_leaf(H, nd) == check_win(Get(H, nd.state), get_opposite_color(nd.color_to_move))

\* MctsNode.fully_extended
fully_extended(nd) == Len(nd.untried_moves) = 0

\* expand that takes the first of the untried moves
expand_first(H, nodes, i) ==
    LET nd == nodes[i]
        move == nd.untried_moves[1]
        cp == copy_state(H, nd.state)
        next_board == cp[2]
        H2 == Put(cp[1], next_board,
                  place(Get(cp[1], next_board), move, nd.color_to_move)[2])
        new_child == [MctsNode(H2, next_board, get_opposite_color(nd.color_to_move),
                               nd.mcts_color, i) EXCEPT !.move = move]
        id == Len(nodes) + 1
    IN  <<H2,
          Append([nodes EXCEPT ![i].untried_moves = Tail(@),
                               ![i].children = Append(@, id)],
                 new_child),
          id>>

\* MctsNode.expand on node i: <<the objects, the nodes, the new child>>
expand(H, nodes, i) ==
    LET nd == nodes[i]
        move == nd.untried_moves[Len(nd.untried_moves)]
        cp == copy_state(H, nd.state)
        next_board == cp[2]
        H2 == Put(cp[1], next_board,
                  place(Get(cp[1], next_board), move, nd.color_to_move)[2])
        new_child == [MctsNode(H2, next_board, get_opposite_color(nd.color_to_move),
                               nd.mcts_color, i) EXCEPT !.move = move]
        id == Len(nodes) + 1
    IN  <<H2,
          Append([nodes EXCEPT ![i].untried_moves = SubSeq(@, 1, Len(@) - 1),
                               ![i].children = Append(@, id)],
                 new_child),
          id>>

\* the orders random.shuffle can leave a list in
Shuffles(moves) ==
    {[k \in 1 .. Len(moves) |-> moves[p[k]]] :
        p \in {q \in [1 .. Len(moves) -> 1 .. Len(moves)] :
                  \A a, b \in 1 .. Len(moves) : a # b => q[a] # q[b]}}

\* MctsNode.rollout, lines 204-207: the moves are placed in turn
RECURSIVE place_all(_, _, _, _)
place_all(b, moves, k, cur_color) ==
    IF k > Len(moves)
    THEN b
    ELSE place_all(place(b, moves[k], cur_color)[2], moves, k + 1,
                   get_opposite_color(cur_color))

\* rollout that reports the connection of the colour to move
rollout_color_to_move(H, nd, moves) ==
    LET cp == copy_state(H, nd.state)
        cur_state == cp[2]
        H2 == Put(cp[1], cur_state,
                  place_all(Get(cp[1], cur_state), moves, 1, nd.color_to_move))
    IN  <<check_win(Get(H2, cur_state), nd.color_to_move),
          IF cur_state > Len(H.boards)
          THEN [H2 EXCEPT !.boards = SubSeq(@, 1, Len(H.boards))]
          ELSE H2>>

\* MctsNode.rollout with the shuffled list `moves`: <<winner, the objects>>;
\* cur_state is a local, gone at the return
rollout(H, nd, moves) ==
    LET cp == copy_state(H, nd.state)
        cur_state == cp[2]
        H2 == Put(cp[1], cur_state,
                  place_all(Get(cp[1], cur_state), moves, 1, nd.color_to_move))
    IN  <<check_win(Get(H2, cur_state), nd.mcts_color),
          IF cur_state > Len(H.boards)
          THEN [H2 EXCEPT !.boards = SubSeq(@, 1, Len(H.boards))]
          ELSE H2>>

\* backpropagate that stops at the node
backpropagate_node_only(nodes, i, winner) ==
    [nodes EXCEPT ![i].no_visits = @ + 1,
                  ![i].no_wins = IF winner THEN @ + 1 ELSE @]

\* backpropagate that counts the visit of the root twice
RECURSIVE backpropagate_root_twice(_, _, _)
backpropagate_root_twice(nodes, i, winner) ==
    LET upd == [nodes EXCEPT ![i].no_visits = @ + (IF nodes[i].parent = 0 THEN 2 ELSE 1),
                             ![i].no_wins = IF winner THEN @ + 1 ELSE @]
    IN  IF nodes[i].parent # 0
        THEN backpropagate_root_twice(upd, nodes[i].parent, winner)
        ELSE upd

\* MctsNode.backpropagate
RECURSIVE backpropagate(_, _, _)
backpropagate(nodes, i, winner) ==
    LET upd == [nodes EXCEPT ![i].no_visits = @ + 1,
                             ![i].no_wins = IF winner THEN @ + 1 ELSE @]
    IN  IF nodes[i].parent # 0
        THEN backpropagate(upd, nodes[i].parent, winner)
        ELSE upd

\* the largest r with r * r <= x, between lo and hi
RECURSIVE ISqrt(_, _, _)
ISqrt(x, lo, hi) ==
    IF lo >= hi
    THEN lo
    ELSE LET mid == (lo + hi + 1) \div 2
         IN  IF mid * mid <= x THEN ISqrt(x, mid, hi) ELSE ISqrt(x, lo, mid - 1)

\* np.log(n) in units of 10^-8
Log == <<0, 69314718, 109861229, 138629436, 160943791, 179175947, 194591015,
         207944154, 219722458, 230258509>>

\* the weight of best_child in units of 10^-6, the exploration factor in
\* hundredths: w / n + C * sqrt(log(N) / n). For N up to 10 the weights of any
\* two children compare as the floating-point values do.
weight(w, n, N, C) == (w * 1000000) \div n + C * ISqrt(Log[N] \div n, 0, 20000)

\* what best_child raises: np.argmax of an empty list, or the division by the
\* visits of a child
best_child_raises(nodes, i) ==
    IF nodes[i].children = <<>> THEN "ValueError"
    ELSE IF \E k \in 1 .. Len(nodes[i].children) :
                nodes[nodes[i].children[k]].no_visits = 0
    THEN "ZeroDivisionError"
    ELSE ""

\* best_child that takes the last of the largest weights
best_child_last(nodes, i, exploration_factor) ==
    LET ch == nodes[i].children
        weights == [k \in 1 .. Len(ch) |->
                       weight(nodes[ch[k]].no_wins, nodes[ch[k]].no_visits,
                              nodes[i].no_visits, exploration_factor)]
    IN  ch[CHOOSE k \in 1 .. Len(ch) :
              /\ \A j \in 1 .. Len(ch) : weights[j] <= weights[k]
              /\ \A j \in k + 1 .. Len(ch) : weights[j] < weights[k]]

\* MctsNode.best_child when it raises nothing: np.argmax gives the first of
\* the largest weights; np.log(0) is -inf, all weights are nan then and
\* np.argmax gives the first
best_child(nodes, i, exploration_factor) ==
    LET ch == nodes[i].children
        weights == [k \in 1 .. Len(ch) |->
                       weight(nodes[ch[k]].no_wins, nodes[ch[k]].no_visits,
                              nodes[i].no_visits, exploration_factor)]
    IN  IF nodes[i].no_visits = 0
        THEN ch[1]
        ELSE ch[CHOOSE k \in 1 .. Len(ch) :
                  /\ \A j \in 1 .. Len(ch) : weights[j] <= weights[k]
                  /\ \A j \in 1 .. k - 1 : weights[j] < weights[k]]


\* the default of exploration_factor, in hundredths
ExplorationFactor == 141

\* ghost.turn_board: the board when do_turn was called; ghost.nodes: the tree
\* when the iteration that runs began
InitMcts ==
    /\ hb = NewBoard(GameSize)
    /\ last = NoCall
    /\ \E n \in 1 .. NoSimulations :
          player = [color |-> EMPTY, no_simulations |-> n,
                    exploration_factor |-> ExplorationFactor]
    /\ tt = EmptyTable
    /\ timer = [on |-> FALSE, expired |-> FALSE]
    /\ stack = <<>>
    /\ ret = NoRet
    /\ idl = [depth |-> 0, bound |-> FALSE, best_score |-> 0, best_move |-> None]
    /\ pc = "play"
    /\ exc = ""
    /\ game = [player_start |-> 0, player_num |-> 0, colors |-> <<EMPTY, EMPTY>>]
    /\ ghost = [turn_board |-> <<>>, nodes |-> <<>>, rolled |-> <<>>]
    /\ mcts = NoTree

\* MctsPlayer.do_turn, line 49, and mcts, lines 69-72: the root refers to the
\* live board itself
MctsDoTurnStart ==
    /\ pc = "turn"
    /\ game.player_num = AI
    /\ timer' = [on |-> TRUE, expired |-> FALSE]
    /\ mcts' = [nodes |-> <<MctsNode([live |-> hb, boards |-> <<>>], 0,
                                     player.color, player.color, 0)>>,
                boards |-> <<>>, iter_count |-> 0, cur_node |-> 0, node |-> 0,
                winner |-> FALSE]
    /\ ghost' = [turn_board |-> hb.board, nodes |-> <<>>, rolled |-> <<>>]
    /\ pc' = "while"
    /\ last' = NoCall
    /\ ret' = NoRet
    /\ UNCHANGED <<hb, player, tt, stack, idl, exc, game>>

\* mcts, line 73: the test of the loop; select starts at the root (line 97)
MctsWhile ==
    /\ pc = "while"
    /\ IF ~timer.expired /\ mcts.iter_count < player.no_simulations
       THEN /\ pc' = "select"
            /\ mcts' = [mcts EXCEPT !.cur_node = 1]
            /\ ghost' = [ghost EXCEPT !.nodes = mcts.nodes]
       ELSE /\ pc' = "best_child"
            /\ UNCHANGED <<mcts, ghost>>
    /\ UNCHANGED <<hb, last, player, tt, timer, stack, ret, idl, exc, game>>

\* select, lines 100 and 108: cur_node is a leaf and is returned
MctsSelectLeaf ==
    /\ pc = "select"
    /\ is_leaf(Heap, mcts.nodes[mcts.cur_node])
    /\ mcts' = [mcts EXCEPT !.node = mcts.cur_node]
    /\ pc' = "rollout"
    /\ UNCHANGED <<hb, last, player, tt, timer, stack, ret, idl, exc, game, ghost>>

\* select, lines 101-103: cur_node is expanded and the new child returned
MctsSelectExpand ==
    /\ pc = "select"
    /\ ~is_leaf(Heap, mcts.nodes[mcts.cur_node])
    /\ ~fully_extended(mcts.nodes[mcts.cur_node])
    /\ LET e == expand(Heap, mcts.nodes, mcts.cur_node)
       IN  /\ hb' = e[1].live
           /\ mcts' = [mcts EXCEPT !.boards = e[1].boards, !.nodes = e[2], !.node = e[3]]
    /\ pc' = "rollout"
    /\ UNCHANGED <<last, player, tt, timer, stack, ret, idl, exc, game, ghost>>

\* select, lines 104-106: the walk goes on at the best child
MctsSelectBestChild ==
    /\ pc = "select"
    /\ ~is_leaf(Heap, mcts.nodes[mcts.cur_node])
    /\ fully_extended(mcts.nodes[mcts.cur_node])
    /\ IF best_child_raises(mcts.nodes, mcts.cur_node) # ""
       THEN /\ Raise(best_child_raises(mcts.nodes, mcts.cur_node), hb.board)
            /\ UNCHANGED mcts
       ELSE /\ mcts' = [mcts EXCEPT !.cur_node =
                           best_child(mcts.nodes, mcts.cur_node, player.exploration_factor)]
            /\ UNCHANGED <<last, stack, pc, exc>>
    /\ UNCHANGED <<hb, player, tt, timer, ret, idl, game, ghost>>

\* mcts, line 78: node.rollout() with one of the orders of the shuffle; the
\* order, the result and the node's board before the call are kept in `last`
MctsRollout ==
    /\ pc = "rollout"
    /\ \E moves \in Shuffles(get_empty_cells(Get(Heap, mcts.nodes[mcts.node].state))) :
          LET r == rollout(Heap, mcts.nodes[mcts.node], moves)
          IN  /\ hb' = r[2].live
              /\ mcts' = [mcts EXCEPT !.boards = r[2].boards, !.winner = r[1]]
              /\ last' = [op |-> "rollout", node |-> mcts.node, moves |-> moves,
                          winner |-> r[1],
                          before |-> Get(Heap, mcts.nodes[mcts.node].state)]
    /\ pc' = "backpropagate"
    /\ UNCHANGED <<player, tt, timer, stack, ret, idl, exc, game, ghost>>

\* mcts, lines 81-82
MctsBackpropagate ==
    /\ pc = "backpropagate"
    /\ mcts' = [mcts EXCEPT !.nodes = backpropagate(mcts.nodes, mcts.node, mcts.winner),
                            !.iter_count = @ + 1]
    /\ last' = [op |-> "iteration", node |-> mcts.node, winner |-> mcts.winner]
    /\ ghost' = [ghost EXCEPT !.rolled = Append(@, mcts.node)]
    /\ pc' = "while"
    /\ UNCHANGED <<hb, player, tt, timer, stack, ret, idl, exc, game>>

\* mcts, line 87, and do_turn, lines 51-52
MctsReturn ==
    /\ pc = "best_child"
    /\ IF best_child_raises(mcts.nodes, 1) # ""
       THEN /\ Raise(best_child_raises(mcts.nodes, 1), hb.board)
            /\ UNCHANGED ret
       ELSE /\ ret' = [aborted |-> FALSE, value |-> 0,
                       move |-> mcts.nodes[best_child(mcts.nodes, 1, 0)].move]
            /\ last' = [op |-> "mcts", result |-> best_child(mcts.nodes, 1, 0)]
            /\ pc' = "place"
            /\ UNCHANGED <<stack, exc>>
    /\ UNCHANGED <<hb, player, tt, timer, idl, game, ghost, mcts>>

\* do_turn, line 54, and lines 75-76 of Hex.play
MctsDoTurnEnd ==
    /\ pc = "place"
    /\ hb' = place(hb, ret.move, player.color)[2]
    /\ game' = [game EXCEPT !.player_num = (game.player_num + 1) % 2]
    /\ pc' = "loop"
    /\ last' = [op |-> "do_turn", raised |-> FALSE, color |-> player.color,
                before |-> ghost.turn_board,
                after |-> place(hb, ret.move, player.color)[2].board]
    /\ UNCHANGED <<player, tt, timer, stack, ret, idl, exc, ghost, mcts>>

NextMcts ==
    \/ \E player_start \in {AI, HUMAN} : Play(player_start)
    \/ LoopTest
    \/ \E c \in Cells(hb.size) : HumanDoTurn(c)
    \/ MctsDoTurnStart
    \/ DeadlineExpires
    \/ MctsWhile
    \/ MctsSelectLeaf
    \/ MctsSelectExpand
    \/ MctsSelectBestChild
    \/ MctsRollout
    \/ MctsBackpropagate
    \/ MctsReturn
    \/ MctsDoTurnEnd

SpecMcts == InitMcts /\ [][NextMcts]_vars


\* mcts() is running, or has raised
InMcts == pc \in {"while", "select", "rollout", "backpropagate", "best_child", "place"}

\* C16: while mcts() runs the live board stays as it was when do_turn was
\* called, every node but the root refers to a copy of its own, and do_turn
\* changes the live board by the placement of the chosen move alone
C16_LiveBoardUntouched ==
    /\ (InMcts \/ (pc = "crashed" /\ mcts.nodes # <<>>)) =>
          /\ hb.board = ghost.turn_board
          /\ \A i \in 2 .. Len(mcts.nodes) :
                /\ mcts.nodes[i].state \in 1 .. Len(mcts.boards)
                /\ \A j \in 1 .. i - 1 : mcts.nodes[j].state # mcts.nodes[i].state
    /\ (last.op = "do_turn" /\ ~last.raised) =>
          \E c \in Cells(hb.size) :
              /\ last.before[c] = EMPTY
              /\ last.after = [last.before EXCEPT ![c] = last.color]

\* the turn is over after a search that wrote to copies two moves deep
C16_Witness ==
    /\ last.op = "do_turn"
    /\ ~last.raised
    /\ hb.board = last.after
    /\ \E k \in 1 .. Len(mcts.boards) :
          Cardinality({c \in Cells(hb.size) : mcts.boards[k].board[c] # last.before[c]}) >= 2


\* node i and its ancestors, the root among them
RECURSIVE PathToRoot(_, _)
PathToRoot(nodes, i) ==
    IF i = 0 THEN {} ELSE {i} \cup PathToRoot(nodes, nodes[i].parent)

\* a counter of node i in the tree `nodes`, 0 for a node not made yet
VisitsIn(nodes, i) == IF i <= Len(nodes) THEN nodes[i].no_visits ELSE 0
WinsIn(nodes, i) == IF i <= Len(nodes) THEN nodes[i].no_wins ELSE 0

\* an iteration of mcts() has just ended
IterationDone == pc = "while" /\ last.op = "iteration"

\* C17: an iteration adds 1 to the visits of the node selected for the rollout
\* and of each of its ancestors up to the root, adds 1 to the wins of the same
\* nodes exactly when the rollout was won by the player's colour, and leaves
\* the counters of every other node as they were
C17_BackpropagationCounts ==
    IterationDone =>
        LET path == PathToRoot(mcts.nodes, last.node)
        IN  /\ 1 \in path
            /\ last.winner = mcts.winner
            /\ Len(mcts.nodes) \in {Len(ghost.nodes), Len(ghost.nodes) + 1}
            /\ \A i \in 1 .. Len(mcts.nodes) :
                  /\ mcts.nodes[i].no_visits =
                        VisitsIn(ghost.nodes, i) + (IF i \in path THEN 1 ELSE 0)
                  /\ mcts.nodes[i].no_wins =
                        WinsIn(ghost.nodes, i) + (IF i \in path /\ last.winner THEN 1 ELSE 0)

\* a won rollout two moves below the root, with nodes beside the path that
\* have been visited
C17_Witness ==
    /\ IterationDone
    /\ last.winner
    /\ Cardinality(PathToRoot(mcts.nodes, last.node)) >= 3
    /\ \E i \in 1 .. Len(mcts.nodes) :
          i \notin PathToRoot(mcts.nodes, last.node) /\ mcts.nodes[i].no_visits >= 1


\* no_wins / no_visits of node i is below that of node j, as fractions
RatioBelow(nodes, i, j) ==
    nodes[i].no_wins * nodes[j].no_visits < nodes[j].no_wins * nodes[i].no_visits

\* the place of node i among the children of the root
CreationOrder(nodes, i) ==
    CHOOSE k \in 1 .. Len(nodes[1].children) : nodes[1].children[k] = i

\* C18: the node mcts() returns is a child of the root, no child of the root
\* has a larger no_wins / no_visits, and every child made before it has a
\* smaller one, whatever the visit counts are
C18_ReturnsBestRatio ==
    (pc = "place" /\ last.op = "mcts") =>
        /\ \E k \in 1 .. Len(mcts.nodes[1].children) : mcts.nodes[1].children[k] = last.result
        /\ ret.move = mcts.nodes[last.result].move
        /\ \A k \in 1 .. Len(mcts.nodes[1].children) :
              LET j == mcts.nodes[1].children[k]
              IN  /\ ~RatioBelow(mcts.nodes, last.result, j)
                  /\ k < CreationOrder(mcts.nodes, last.result)
                        => RatioBelow(mcts.nodes, j, last.result)

\* the returned child shares the largest ratio with a child made later, and
\* another child with a smaller ratio has more visits than it
C18_Witness ==
    /\ pc = "place"
    /\ last.op = "mcts"
    /\ \E k \in 1 .. Len(mcts.nodes[1].children) :
          LET j == mcts.nodes[1].children[k]
          IN  /\ k > CreationOrder(mcts.nodes, last.result)
              /\ ~RatioBelow(mcts.nodes, j, last.result)
    /\ \E k \in 1 .. Len(mcts.nodes[1].children) :
          LET j == mcts.nodes[1].children[k]
          IN  /\ RatioBelow(mcts.nodes, j, last.result)
              /\ mcts.nodes[j].no_visits > mcts.nodes[last.result].no_visits


\* best_child is the next thing evaluated: on cur_node in select (line 106),
\* on the root at the end of mcts (line 87)
BestChildOf ==
    IF pc = "best_child" THEN 1
    ELSE IF /\ pc = "select"
            /\ ~is_leaf(Heap, mcts.nodes[mcts.cur_node])
            /\ fully_extended(mcts.nodes[mcts.cur_node])
    THEN mcts.cur_node
    ELSE 0

\* node i has a child, has been visited, and so has each of its children
Scorable(nodes, i) ==
    /\ Len(nodes[i].children) >= 1
    /\ nodes[i].no_visits >= 1
    /\ \A k \in 1 .. Len(nodes[i].children) : nodes[nodes[i].children[k]].no_visits >= 1

\* C19: whenever best_child is evaluated on a node, in select or for the
\* final choice at the root, the node has at least one child, its visit count
\* is at least 1 and so is the visit count of each of its children
C19_BestChildIsDefined ==
    BestChildOf # 0 => Scorable(mcts.nodes, BestChildOf)

\* the same for select alone, and for the final choice after an iteration
C19_BestChildIsDefinedAfterIteration ==
    (BestChildOf # 0 /\ (pc = "select" \/ mcts.iter_count >= 1))
        => Scorable(mcts.nodes, BestChildOf)

\* best_child is evaluated in select, on a node below the root
C19_WitnessSelect == pc = "select" /\ BestChildOf > 1

\* the final choice without an iteration ends in the ValueError of np.argmax
C19_WitnessRaise ==
    /\ pc = "crashed"
    /\ exc = "ValueError"
    /\ mcts.iter_count = 0
    /\ mcts.nodes[1].children = <<>>


---------------------------------------------------------------------------
(* SpecPlace: board.place called with any pair of coordinates, on the board *)
(* and around it (hexboard.py, lines 168-181 and 193-202).                 *)

\* the coordinates a caller may pass
Coordinates(n) == (-Outside .. n - 1 + Outside) \X (-Outside .. n - 1 + Outside)

InitPlace ==
    /\ hb = NewBoard(GameSize)
    /\ last = NoCall
    /\ Idle

\* board.place(c, color): the result, the arguments and the board before are
\* kept in `last`
PlaceCall(c, color) ==
    /\ last = NoCall
    /\ hb' = place(hb, c, color)[2]
    /\ last' = [op |-> "place", c |-> c, color |-> color,
                result |-> place(hb, c, color)[1], before |-> hb.board]
    /\ UNCHANGED others

\* the caller goes on
PlaceReturn ==
    /\ last # NoCall
    /\ last' = NoCall
    /\ UNCHANGED <<hb, others>>

NextPlace ==
    \/ \E c \in Coordinates(hb.size), color \in Colors : PlaceCall(c, color)
    \/ PlaceReturn

SpecPlace == InitPlace /\ [][NextPlace]_vars

\* a coordinate of c is negative or not below the size
OutsideBoard(b, c) == c[1] < 0 \/ c[1] >= b.size \/ c[2] < 0 \/ c[2] >= b.size

\* C20: place(c, color) returns False and changes no cell when c is outside
\* the board or the cell at c is not Empty; otherwise it returns True, the
\* cell at c holds color and every other cell is as before
C20_PlaceChangesOneEmptyCell ==
    (last.op = "place") =>
        IF OutsideBoard(hb, last.c) \/ last.before[last.c] # EMPTY
        THEN /\ last.result = FALSE
             /\ hb.board = last.before
        ELSE /\ last.result = TRUE
             /\ hb.board[last.c] = last.color
             /\ \A d \in Cells(hb.size) : d # last.c => hb.board[d] = last.before[d]

\* a refused call with a negative coordinate which, counted from the end as
\* an index, names an Empty cell, on a board that holds stones
C20_Witness ==
    /\ last.op = "place"
    /\ last.c[1] = -1
    /\ last.c[2] \in 0 .. hb.size - 1
    /\ hb.board[<<hb.size - 1, last.c[2]>>] = EMPTY
    /\ ~last.result
    /\ \E d \in Cells(hb.size) : hb.board[d] # EMPTY


---------------------------------------------------------------------------
(* SpecUndo: board.place(c, color) followed by board.take(c), or by other  *)
(* placements (hexboard.py, lines 159-190).                                *)

\* a successful board.place(c, color); the encoding before it is kept
UndoPlace(c, color) ==
    /\ last = NoCall
    /\ place(hb, c, color)[1]
    /\ hb' = place(hb, c, color)[2]
    /\ last' = [op |-> "place", c |-> c, color |-> color, key |-> tostring(hb)]
    /\ UNCHANGED others

\* board.take(c) on the cell just placed
UndoTake ==
    /\ last.op = "place"
    /\ hb' = take(hb, last.c)
    /\ last' = [op |-> "take", c |-> last.c, color |-> last.color, key |-> last.key]
    /\ UNCHANGED others

\* the caller goes on; after a place the stone stays
UndoReturn ==
    /\ last # NoCall
    /\ last' = NoCall
    /\ UNCHANGED <<hb, others>>

NextUndo ==
    \/ \E c \in Cells(hb.size), color \in Colors : UndoPlace(c, color)
    \/ UndoTake
    \/ UndoReturn

SpecUndo == InitPlace /\ [][NextUndo]_vars

\* C21: a new board of size N has N * N empty cells, and after a successful
\* place(c, color) followed by take(c) tostring() gives what it gave before
\* the place
C21_PlaceTakeRestoresEncoding ==
    /\ (hb = NewBoard(hb.size)) => Len(get_empty_cells(hb)) = hb.size * hb.size
    /\ (last.op = "place") => tostring(hb) # last.key
    /\ (last.op = "take") => tostring(hb) = last.key

\* a stone was placed and taken on a board that holds stones of both colours
C21_Witness ==
    /\ last.op = "take"
    /\ \E d \in Cells(hb.size) : hb.board[d] = BLUE
    /\ \E d \in Cells(hb.size) : hb.board[d] = RED


---------------------------------------------------------------------------
(* The game loop of Hex.play (hexgame.py, lines 62-84)                     *)

\* the player whose turn would be next, taken for the winner
winner_is_next == game.player_num

\* Hex.play, line 84, after the loop: the value play returns
winner == (game.player_num + 1) % 2

\* the number of cells that hold `color`
Stones(color) == Cardinality({c \in Cells(hb.size) : hb.board[c] = color})

\* no do_turn is running: play is at the test of its loop, about to call
\* do_turn, or past the loop
BetweenTurns == pc \in {"loop", "turn", "done"}

\* C22: the players move in turn, player_start first (so the starter's BLUE
\* stones are as many as the RED ones when it is the starter's turn and one
\* more otherwise); do_turn is called only while no colour is connected; and
\* the value play returns is the player who moved last, whose colour is
\* connected while the other colour is not
C22_AlternateUntilWin ==
    /\ BetweenTurns =>
          Stones(BLUE) = Stones(RED) + (IF game.player_num = game.player_start THEN 0 ELSE 1)
    /\ (pc = "turn") => \A color \in Colors : ~Connected(hb, color)
    /\ (pc = "done") =>
          /\ Stones(game.colors[winner]) = Stones(game.colors[1 - winner])
                                           + (IF winner = game.player_start THEN 1 ELSE 0)
          /\ Stones(game.colors[winner]) >= 1
          /\ Connected(hb, game.colors[winner])
          /\ ~Connected(hb, game.colors[1 - winner])

\* play has returned the program's player, who moved second, as the winner
C22_Witness ==
    /\ pc = "done"
    /\ winner = AI
    /\ game.player_start = HUMAN
    /\ last.op = "do_turn"


---------------------------------------------------------------------------
(* SpecStart: Hex.play called with a player_start or without one           *)
(* (hexgame.py, lines 27-48 and 51-67).                                    *)

\* the default of player_start, None: it stands apart from the indices 0 and 1
\* of the players, and nothing is ever indexed with it
NoStart == 2

\* Hex.play(), lines 62-65, player_start left None: prepare_game draws the
\* starter with choice([0, 1]) into its own local variable and gives out the
\* colours; player_num of play is None
PlayDefault(chosen) ==
    /\ pc = "play"
    /\ hb' = NewBoard(hb.size)
    /\ tt' = EmptyTable
    /\ player' = [player EXCEPT !.color = IF chosen = AI THEN BLUE ELSE RED]
    /\ game' = [player_start |-> NoStart, player_num |-> NoStart,
                colors |-> [i \in {AI, HUMAN} |-> IF i = chosen THEN BLUE ELSE RED]]
    /\ pc' = "loop"
    /\ UNCHANGED <<last, timer, stack, ret, idl, exc, ghost, mcts>>

\* Hex.play, line 67, with player_num None: self.players[None] raises
\* TypeError (list indices must be integers or slices)
LoopTestNone ==
    /\ pc = "loop"
    /\ game.player_num = NoStart
    /\ exc' = "TypeError"
    /\ pc' = "crashed"
    /\ UNCHANGED <<hb, last, player, tt, timer, stack, ret, idl, game, ghost, mcts>>

NextStart ==
    \/ \E player_start \in {AI, HUMAN} : Play(player_start)
    \/ \E chosen \in {AI, HUMAN} : PlayDefault(chosen)
    \/ (game.player_num # NoStart /\ LoopTest)
    \/ LoopTestNone
    \/ \E c \in Cells(hb.size) : HumanDoTurn(c)
    \/ DoTurnStart
    \/ DeadlineExpires
    \/ ABEnter
    \/ ABCall
    \/ ABAfterCall
    \/ TimedTurnLoopStep
    \/ DoTurnEnd

SpecStart == Init /\ [][NextStart]_vars

\* C23: a game started by play() without a player_start is played like any
\* other: no exception ends it, and a turn is played in it
C23_DefaultStartPlays ==
    (pc # "play" /\ game.player_start = NoStart) => (exc = "" /\ pc # "crashed")

\* play() without a player_start has ended in the TypeError of line 67, on
\* the new board, before any do_turn
C23_WitnessRaise ==
    /\ game.player_start = NoStart
    /\ pc = "crashed"
    /\ exc = "TypeError"
    /\ hb = NewBoard(hb.size)
    /\ last = NoCall

\* a turn is played in a game started without a player_start
C23_TurnAfterDefaultStart ==
    game.player_start = NoStart /\ pc \in {"turn", "search", "id_search", "place", "done"}


---------------------------------------------------------------------------
(* What the search stores in the table (alphabetaplayer.py, lines 292-319) *)

\* the call that `last` reports has stored its result at lines 314-317
StoredByLast ==
    /\ last.op = "alphabeta_nega"
    /\ last.how \in {"cut", "complete"}
    /\ player.use_tt

\* the key of the position of the call that `last` reports
KeyOfLast == tostring([size |-> hb.size, board |-> last.entry])

\* C24: an entry of the table was stored by a call below which the deadline
\* ended no call, so its score comes from a search of the whole subtree and
\* from no aborted child; its move is an empty cell of the position.
\* (Once the deadline has ended a call, every call still running is one of
\* its callers, and every call made later is ended at its first line.)
C24_EntriesFromCompleteSearches ==
    StoredByLast =>
        /\ ~ghost.tainted
        /\ last.entry[last.move] = EMPTY

\* what is stored is the call's result, and the move is an empty cell of the
\* position
C24_StoredMoveIsEmptyCell ==
    StoredByLast =>
        /\ KeyOfLast \in DOMAIN tt
        /\ last.depth \in DOMAIN tt[KeyOfLast]
        /\ tt[KeyOfLast][last.depth] = <<last.move, last.value>>
        /\ last.entry[last.move] = EMPTY

\* a call stored the score 9999, the negation of the -INF with which its
\* child began and which the child returned when the deadline ended the
\* grandchild
C24_WitnessTainted ==
    /\ StoredByLast
    /\ ghost.tainted
    /\ last.value = INF
    /\ tt[KeyOfLast][last.depth] = <<last.move, INF>>


---------------------------------------------------------------------------
(* The moves a call tries (alphabetaplayer.py, lines 281-287)              *)

\* the calls on the stack that have made their list of moves
Searching == {i \in 1 .. Len(stack) : stack[i].at # "entry"}

\* the position of call i, and the row-major list of its empty cells
PositionOf(i) == [size |-> hb.size, board |-> stack[i].entry]

\* the sequence without its elements equal to x
RECURSIVE Without(_, _)
Without(seq, x) ==
    IF seq = <<>> THEN <<>>
    ELSE (IF seq[1] = x THEN <<>> ELSE <<seq[1]>>) \o Without(Tail(seq), x)

\* C25: with a hint move from the table, the moves a call tries are the
\* row-major list of the empty cells with the hint moved to the front: the
\* same cells as without a hint, each once
C25_HintMoveRelocated ==
    \A i \in Searching :
        LET f == stack[i]
            cells == get_empty_cells(PositionOf(i))
        IN  /\ {f.moves[k] : k \in 1 .. Len(f.moves)} = {cells[k] : k \in 1 .. Len(cells)}
            /\ \A j, k \in 1 .. Len(f.moves) : j # k => f.moves[j] # f.moves[k]
            /\ f.tt_move # None =>
                  f.moves = <<f.tt_move>> \o Without(cells, f.tt_move)

\* what the code does: the hint is put in front of the whole list, in which
\* it stays
C25_HintMovePrepended ==
    \A i \in Searching :
        LET f == stack[i]
            cells == get_empty_cells(PositionOf(i))
        IN  /\ {f.moves[k] : k \in 1 .. Len(f.moves)} = {cells[k] : k \in 1 .. Len(cells)}
            /\ f.moves = IF f.tt_move # None THEN <<f.tt_move>> \o cells ELSE cells

\* a call is searching the hint move for the second time
C25_WitnessSearchedTwice ==
    /\ stack # <<>>
    /\ Top.at = "entry"
    /\ Len(stack) >= 2
    /\ LET f == stack[Len(stack) - 1]
       IN  /\ f.tt_move # None
           /\ f.i > 1
           /\ f.moves[f.i] = f.tt_move


---------------------------------------------------------------------------
(* SpecFair: the game of Spec in which the program keeps running: a step   *)
(* that can be taken is taken in the end. The other player is any player   *)
(* whose do_turn places one stone on an empty cell.                        *)

\* alphabeta_nega can take its first step: a call stands at its entry
ABEnterEnabled == stack # <<>> /\ Top.at = "entry"

\* every step of play, of do_turn and of the search is taken once it can be,
\* and the clock passes the deadline unless it is stopped before; for ABEnter
\* this is weak fairness written out with ABEnterEnabled
Fairness ==
    /\ WF_vars(\E player_start \in {AI, HUMAN} : Play(player_start))
    /\ WF_vars(LoopTest)
    /\ WF_vars(\E c \in Cells(hb.size) : HumanDoTurn(c))
    /\ WF_vars(DoTurnStart)
    /\ WF_vars(DeadlineExpires)
    /\ ([]<>(~ABEnterEnabled) \/ []<><<ABEnter>>_vars)
    /\ WF_vars(ABCall)
    /\ WF_vars(ABAfterCall)
    /\ WF_vars(TimedTurnLoopStep)
    /\ WF_vars(DoTurnEnd)

SpecFair == Init /\ [][Next]_vars /\ Fairness

\* C26: every game ends: some colour gets a winning connection, the loop of
\* play stops and play returns
C26_GameEnds == <>(pc = "done")

\* a game ends or an exception ends the program: no search and no loop of
\* play runs for ever
C26_GameEndsOrRaises == <>(pc \in {"done", "crashed"})

\* between turns there are as many stones as do_turn calls have returned, so
\* play has made at most size * size calls, and on a full board the loop
\* has stopped or stops at its next test
C26_AtMostAllCellsTurns ==
    /\ Stones(BLUE) + Stones(RED) <= hb.size * hb.size
    /\ (pc = "turn") => Stones(BLUE) + Stones(RED) < hb.size * hb.size

\* the program's first do_turn ended in an exception, before the other
\* player made a move
C26_WitnessRaise ==
    /\ pc = "crashed"
    /\ game.player_start = AI
    /\ hb = NewBoard(hb.size)


---------------------------------------------------------------------------
(* The tree that expand builds (mctsplayer.py, lines 122-167)              *)

\* the elements of a sequence
Range(seq) == {seq[k] : k \in 1 .. Len(seq)}

\* the step is a call of expand on cur_node
ExpandStep == pc = "select" /\ pc' = "rollout" /\ Len(mcts'.nodes) = Len(mcts.nodes) + 1

\* what a call of expand on node p does
ExpandEffect ==
    LET p == mcts.cur_node
        nd == mcts.nodes[p]
        m == nd.untried_moves[Len(nd.untried_moves)]
        id == Len(mcts.nodes) + 1
        child == mcts'.nodes[id]
    IN  /\ Len(nd.untried_moves) >= 1
        /\ mcts'.nodes[p] = [nd EXCEPT !.untried_moves = SubSeq(@, 1, Len(@) - 1),
                                       !.children = Append(@, id)]
        /\ mcts'.node = id
        /\ child.move = m
        /\ child.parent = p
        /\ child.color_to_move = get_opposite_color(nd.color_to_move)
        /\ child.mcts_color = nd.mcts_color
        /\ child.children = <<>>
        /\ child.state = Len(mcts.boards) + 1
        /\ Len(mcts'.boards) = Len(mcts.boards) + 1
        /\ mcts'.boards[child.state].board =
              [Get(Heap, nd.state).board EXCEPT ![m] = nd.color_to_move]
        /\ Get(Heap, nd.state).board[m] = EMPTY
        /\ hb' = hb
        /\ \A k \in 1 .. Len(mcts.boards) : mcts'.boards[k] = mcts.boards[k]
        /\ \A i \in 1 .. Len(mcts.nodes) : i # p => mcts'.nodes[i] = mcts.nodes[i]

\* in every node of the tree of a running mcts() the moves of the children
\* and the untried moves are the empty cells of the node's board, each once
MovesPartition ==
    InMcts =>
        \A i \in 1 .. Len(mcts.nodes) :
            LET nd == mcts.nodes[i]
                tried == [k \in 1 .. Len(nd.children) |-> mcts.nodes[nd.children[k]].move]
                all == tried \o nd.untried_moves
            IN  /\ Range(all) = Range(get_empty_cells(Get(Heap, nd.state)))
                /\ \A j, k \in 1 .. Len(all) : j # k => all[j] # all[k]

\* C27: expand removes the last untried move m of the node and appends one
\* child: its board is the node's board with m in the node's colour to move,
\* its colour to move the opposite one, its perspective colour and parent the
\* node's, its move m; the node's board, the other nodes and their boards
\* stay as they are; so in every node the moves of the children and the
\* untried moves are, each once, the empty cells of the node's board
C27_ExpandAddsOneChild ==
    [][(ExpandStep => ExpandEffect) /\ MovesPartition']_vars

\* expand has been called on a node below the root that had a child already
C27_Witness ==
    /\ pc = "rollout"
    /\ mcts.cur_node > 1
    /\ mcts.node = Len(mcts.nodes)
    /\ mcts.nodes[mcts.node].parent = mcts.cur_node
    /\ Len(mcts.nodes[mcts.cur_node].children) >= 2
    /\ Len(mcts.nodes[mcts.cur_node].untried_moves) >= 1


---------------------------------------------------------------------------
(* The playout of rollout (mctsplayer.py, lines 189-209)                   *)

\* the playout of the moves in their order, colours in turn, that stops at
\* the first position in which a colour is connected: that colour, EMPTY
\* when the moves end before
RECURSIVE StoppedPlayout(_, _, _, _)
StoppedPlayout(b, moves, k, cur_color) ==
    IF Connected(b, BLUE) THEN BLUE
    ELSE IF Connected(b, RED) THEN RED
    ELSE IF k > Len(moves) THEN EMPTY
    ELSE StoppedPlayout([b EXCEPT !.board[moves[k]] = cur_color], moves, k + 1,
                        get_opposite_color(cur_color))

\* the number of moves after which the playout stops
RECURSIVE StoppedAfter(_, _, _, _)
StoppedAfter(b, moves, k, cur_color) ==
    IF Connected(b, BLUE) \/ Connected(b, RED) \/ k > Len(moves) THEN k - 1
    ELSE StoppedAfter([b EXCEPT !.board[moves[k]] = cur_color], moves, k + 1,
                      get_opposite_color(cur_color))

\* rollout has just returned
RolloutDone == pc = "backpropagate" /\ last.op = "rollout"

\* C28: rollout places all empty cells of a copy in the shuffled order,
\* colours in turn from the node's colour to move, and reports whether the
\* perspective colour is connected on the full board; that is the result of
\* the same playout stopped at the first position with a connected colour;
\* the node's own board is as before
C28_RolloutEqualsStoppedPlayout ==
    RolloutDone =>
        LET nd == mcts.nodes[last.node]
        IN  /\ Range(last.moves) = Range(get_empty_cells(last.before))
            /\ Len(last.moves) = Len(get_empty_cells(last.before))
            /\ last.winner = mcts.winner
            /\ last.winner =
                  (StoppedPlayout(last.before, last.moves, 1, nd.color_to_move) = nd.mcts_color)
            /\ Get(Heap, nd.state) = last.before
            /\ hb.board = ghost.turn_board

\* a playout that the opponent's colour to move begins, won by the
\* perspective colour before the board is full
C28_Witness ==
    /\ RolloutDone
    /\ last.winner
    /\ mcts.nodes[last.node].color_to_move # mcts.nodes[last.node].mcts_color
    /\ StoppedAfter(last.before, last.moves, 1, mcts.nodes[last.node].color_to_move)
          < Len(last.moves)


---------------------------------------------------------------------------
(* The evaluation and the decided game (alphabetaplayer.py, lines 18-19,   *)
(* 75-82 and 184-222)                                                      *)

\* eval_dijkstra(color) on the board b tells the decided game from the
\* undecided one: >= LOSE exactly when color is connected, <= -LOSE exactly
\* when the other colour is, of magnitude below LOSE when neither is, and of
\* magnitude at most LOSE, so never INF
EvalDecides(b, color) ==
    LET v == eval_dijkstra(b, color)
        opp == get_opposite_color(color)
    IN  /\ (v >= LOSE) <=> Connected(b, color)
        /\ (v <= -LOSE) <=> Connected(b, opp)
        /\ (~Connected(b, color) /\ ~Connected(b, opp)) => (-LOSE < v /\ v < LOSE)
        /\ -LOSE <= v /\ v <= LOSE
        /\ v # INF /\ v # -INF

\* the game of the position b with color to move is decided within depth
\* plies, for the side that the sign of value names: the exhaustive search of
\* that depth ends in connected positions only
DecidedWithin(b, color, depth, value) ==
    LET v == negamax(b, color, depth)[1]
    IN  IF value > 0 THEN v >= LOSE ELSE v <= -LOSE

\* the call that `last` reports returned a score: the evaluation of its
\* position, and, where it is the outermost call (the one with the full
\* window, whose score do_turn and timed_turn_loop use), the decided game
ScoreOfLastIsSound ==
    LET b == [size |-> hb.size, board |-> last.entry]
    IN  /\ EvalDecides(b, last.color)
        /\ (last.how = "leaf") => (last.value = eval_dijkstra(b, last.color))
        /\ (last.level = 1 /\ (last.value >= LOSE \/ last.value <= -LOSE)) =>
              /\ last.value \in {LOSE, -LOSE}
              /\ DecidedWithin(b, last.color, last.depth, last.value)

\* C29: eval_dijkstra(C) is >= LOSE exactly when C is connected, <= -LOSE
\* exactly when the opponent of C is, below LOSE in magnitude when neither is,
\* and never above LOSE in magnitude, so never INF; hence a score that a
\* search returns is of magnitude >= LOSE only where the game is decided
\* within the searched plies.
C29_DecisiveScoreOnlyWhenDecided ==
    (last.op = "alphabeta_nega" /\ ~last.aborted) => ScoreOfLastIsSound

\* the same of the searches that run without a deadline
C29_DecisiveScoreWithoutDeadline ==
    (last.op = "alphabeta_nega" /\ ~last.aborted /\ ~player.use_id) => ScoreOfLastIsSound

\* the evaluation alone, on every contents of the board and for both colours
C29_EvalDecidesExactly ==
    \A color \in Colors : EvalDecides(hb, color)

\* a call returns the score INF, the negation of the -INF that a call ended
\* under a deadline returned, for a position in which nobody is connected and
\* the side to move cannot connect within the searched plies
C29_WitnessInfScore ==
    /\ last.op = "alphabeta_nega"
    /\ ~last.aborted
    /\ last.level = 1
    /\ last.value = INF
    /\ ~Connected([size |-> hb.size, board |-> last.entry], BLUE)
    /\ ~Connected([size |-> hb.size, board |-> last.entry], RED)
    /\ negamax([size |-> hb.size, board |-> last.entry], last.color, last.depth)[1] < LOSE


---------------------------------------------------------------------------
(* The counters of the tree after an iteration (mctsplayer.py, lines       *)
(* 72-82, 91-108 and 212-224); ghost.rolled lists the nodes of this turn's *)
(* rollouts, one for each iteration done                                   *)

\* the nodes of the subtree of node i, i among them
SubtreeOf(nodes, i) == {j \in 1 .. Len(nodes) : i \in PathToRoot(nodes, j)}

\* the number of iterations whose rollout node lies in the subtree of node i
RolledIn(nodes, i) ==
    Cardinality({k \in 1 .. Len(ghost.rolled) : ghost.rolled[k] \in SubtreeOf(nodes, i)})

\* the sum of the visit counts of the children of node i from the k-th on
RECURSIVE ChildVisits(_, _, _)
ChildVisits(nodes, i, k) ==
    IF k > Len(nodes[i].children)
    THEN 0
    ELSE nodes[nodes[i].children[k]].no_visits + ChildVisits(nodes, i, k + 1)

\* C30: after each completed iteration the visit count of a node is the
\* number of iterations whose rollout node lies in its subtree; the root's is
\* the number of iterations done and the sum of its children's; that of every
\* other node whose game is not over is 1 plus the sum of its children's; and
\* no node has more wins than visits.
C30_VisitCounts ==
    IterationDone =>
        /\ Len(ghost.rolled) = mcts.iter_count
        /\ mcts.nodes[1].no_visits = mcts.iter_count
        /\ mcts.nodes[1].no_visits = ChildVisits(mcts.nodes, 1, 1)
        /\ \A i \in 1 .. Len(mcts.nodes) :
              /\ mcts.nodes[i].no_visits = RolledIn(mcts.nodes, i)
              /\ mcts.nodes[i].no_wins <= mcts.nodes[i].no_visits
              /\ (i # 1 /\ ~is_leaf(Heap, mcts.nodes[i])) =>
                    mcts.nodes[i].no_visits = 1 + ChildVisits(mcts.nodes, i, 1)

\* after an iteration: a node below the root has children that were visited,
\* and a node whose game is over was the rollout node of two iterations
C30_Witness ==
    /\ IterationDone
    /\ mcts.iter_count >= 4
    /\ \E i \in 2 .. Len(mcts.nodes) :
          /\ ~is_leaf(Heap, mcts.nodes[i])
          /\ ChildVisits(mcts.nodes, i, 1) >= 1
    /\ \E i \in 2 .. Len(mcts.nodes) :
          /\ is_leaf(Heap, mcts.nodes[i])
          /\ mcts.nodes[i].no_visits >= 2

=============================================================================
